---- MODULE Spec2Model ----
(***************************************************************************)
(* A model of the dead-code analysis core of diedeadcode: the CallGraph    *)
(* (core/types.rs), the reachability engine (analysis/deadness), the       *)
(* confidence scorer (analysis/confidence) and the per-file extraction     *)
(* and graph assembly (analysis/call_graph, analysis/entry_points).        *)
(*                                                                         *)
(* Spec          drives a CallGraph through add_symbol / add_reference /   *)
(*               mark_entry_point and then runs find_dead_symbols on it.   *)
(* SpecScore     applies score_dead_symbols to bounded findings.           *)
(* SpecPipeline  runs Analyzer::analyze on small projects.                 *)
(***************************************************************************)
EXTENDS Integers, Sequences, FiniteSets, TLC

VARIABLES
    symbols,            \* CallGraph.symbols: SymbolId -> TrackedSymbol
    references,         \* CallGraph.references
    entry_points,       \* CallGraph.entry_points
    dynamic_patterns,   \* CallGraph.dynamic_patterns
    files,              \* CallGraph.files: FileId -> FileInfo
    incoming_refs,      \* CallGraph.incoming_refs
    outgoing_refs,      \* CallGraph.outgoing_refs
    next_symbol_id,     \* CallGraph.next_symbol_id
    config,             \* the Config in force
    pc,                 \* position of the driver
    reachable,          \* mark_reachable_symbols: the visited set
    queue,              \* mark_reachable_symbols: the BFS queue
    enqueued,           \* history: how many times each id was pushed on the queue
    unreachable,        \* find_dead_symbols: the candidate list
    directly_dead,      \* find_transitive_dead: first component
    transitively_dead,  \* find_transitive_dead: second component
    dead_symbols,       \* the Vec<DeadSymbol> under construction
    project,            \* the source files handed to build_call_graph
    file_id_counter,    \* build_call_graph: AtomicU32
    symbol_id_counter,  \* build_call_graph: AtomicU32
    file_id_map,        \* build_call_graph: path -> FileId
    workers,            \* per input file: the state of its parallel task
    result              \* the AnalysisResult, once produced

graphVars == <<symbols, references, entry_points, dynamic_patterns, files,
               incoming_refs, outgoing_refs, next_symbol_id>>
bfsVars == <<reachable, queue, enqueued>>
deadVars == <<unreachable, directly_dead, transitively_dead, dead_symbols>>
buildVars == <<project, file_id_counter, symbol_id_counter, file_id_map, workers>>
vars == <<graphVars, config, pc, bfsVars, deadVars, buildVars, result>>

-----------------------------------------------------------------------------
(* Bounds *)

MaxSym == 2    \* symbols the graph driver allocates
MaxRefs == 2   \* references the graph driver adds
MaxEntries == 2 \* entry points the graph driver marks
MaxOps == 5  \* calls the graph driver makes before find_dead_symbols
MaxPatterns == 2 \* dynamic patterns of the graph handed to the scorer

(* u32 values.  A u32 is represented by the integer of -2^31 .. 2^31-1 that *)
(* is congruent to it modulo 2^32; SymbolId and FileId are compared only   *)
(* for equality, which this representation preserves.                      *)

I32Max == 2147483647

\* u32::MAX
U32Max == -1

\* mutant: the counter is read and left as it was
WrappingInc_stuck(x) == x

\* u32 wrapping_add(x, 1), as AtomicU32::fetch_add stores it
WrappingInc(x) == IF x = I32Max THEN (-I32Max) - 1 ELSE x + 1

-----------------------------------------------------------------------------
(* Generic helpers *)

Range(s) == {s[i] : i \in DOMAIN s}

Contains(s, x) == \E i \in DOMAIN s : s[i] = x

\* All enumerations of a finite set as a sequence without repetition: the
\* orders in which a HashMap or HashSet may be iterated.
Orders(S) ==
    {s \in [1..Cardinality(S) -> S] : \A i, j \in 1..Cardinality(S) : s[i] = s[j] => i = j}

\* a multiset as a map from element to count: one more occurrence of x
BagAdd(b, x) ==
    [y \in DOMAIN b \cup {x} |->
        IF y = x THEN (IF x \in DOMAIN b THEN b[x] + 1 ELSE 1) ELSE b[y]]

\* Option<T> is a sequence of length 0 (None) or 1 (Some).
None == <<>>
Some(x) == <<x>>

\* str::starts_with
starts_with(s, p) == Len(s) >= Len(p) /\ SubSeq(s, 1, Len(p)) = p

-----------------------------------------------------------------------------------------------------------------------------------------------------
(* Strings and paths.  A string is a TLA+ string, read character by        *)
(* character with SubSeq.  A path is the sequence of its components as     *)
(* Path::components yields them: "/" for the root, then the names, with    *)
(* the "." components and repeated separators dropped.  Path equality and  *)
(* hashing in Rust are defined on that sequence.                           *)

CharAt(s, i) == SubSeq(s, i, i)

\* the characters that occur in names, in byte order
AsciiChars == "$-./0123456789ABCDEFGHIJKLMNOPQRSTUVWXYZ_abcdefghijklmnopqrstuvwxyz"

CharRank(c) == CHOOSE i \in 1..Len(AsciiChars) : CharAt(AsciiChars, i) = c

\* Ordering::cmp as -1 / 0 / 1
IntCmp(a, b) == IF a < b THEN -1 ELSE IF a > b THEN 1 ELSE 0

\* str::cmp: byte-wise lexicographic
RECURSIVE StrCmp(_, _)
StrCmp(a, b) ==
    IF a = b THEN 0
    ELSE IF a = "" THEN -1
    ELSE IF b = "" THEN 1
    ELSE LET c == IntCmp(CharRank(CharAt(a, 1)), CharRank(CharAt(b, 1)))
         IN IF c # 0 THEN c
            ELSE StrCmp(SubSeq(a, 2, Len(a)), SubSeq(b, 2, Len(b)))

\* the derived order of std::path::Component: RootDir < CurDir < ParentDir < Normal
ComponentCmp(a, b) ==
    LET Class(c) == CASE c = "/" -> 0 [] c = "." -> 1 [] c = ".." -> 2 [] OTHER -> 3
    IN IF Class(a) # Class(b) THEN IntCmp(Class(a), Class(b))
       ELSE IF Class(a) = 3 THEN StrCmp(a, b) ELSE 0

\* Path::cmp: lexicographic over components
RECURSIVE PathCmp(_, _)
PathCmp(p, q) ==
    IF p = q THEN 0
    ELSE IF p = <<>> THEN -1
    ELSE IF q = <<>> THEN 1
    ELSE LET c == ComponentCmp(Head(p), Head(q))
         IN IF c # 0 THEN c ELSE PathCmp(Tail(p), Tail(q))

\* the names between the separators of a path string, empty names dropped
RECURSIVE SplitNames(_, _)
SplitNames(s, cur) ==
    IF s = "" THEN (IF cur = "" THEN <<>> ELSE <<cur>>)
    ELSE IF CharAt(s, 1) = "/"
         THEN (IF cur = "" THEN <<>> ELSE <<cur>>) \o SplitNames(SubSeq(s, 2, Len(s)), "")
         ELSE SplitNames(SubSeq(s, 2, Len(s)), cur \o CharAt(s, 1))

\* Path::components of a path string: a leading "." is kept, other "." dropped
PathFrom(s) ==
    LET names == SplitNames(s, "")
        NotDot(n) == n # "."
        rest == SelectSeq(names, NotDot)
    IN IF starts_with(s, "/") THEN <<"/">> \o rest
       ELSE IF names # <<>> /\ Head(names) = "." THEN <<".">> \o rest
       ELSE rest

\* Path::join with a path string: an absolute argument replaces the base
PathJoin(base, s) ==
    IF starts_with(s, "/") THEN PathFrom(s)
    ELSE LET names == SplitNames(s, "")
             NotDot(n) == n # "."
         IN IF base = <<>> THEN PathFrom(s) ELSE base \o SelectSeq(names, NotDot)

\* Path::parent as an Option
PathParent(p) ==
    IF p = <<>> \/ p[Len(p)] = "/" THEN None ELSE Some(SubSeq(p, 1, Len(p) - 1))

\* the position of the last "." of a name, 0 if there is none
RECURSIVE LastDot(_, _)
LastDot(name, i) ==
    IF i = 0 THEN 0 ELSE IF CharAt(name, i) = "." THEN i ELSE LastDot(name, i - 1)

\* Path::file_stem as an Option: the file name up to its last ".", the whole
\* name if it has none or only a leading one; None for "/" and ".."
PathFileStem(p) ==
    IF p = <<>> \/ p[Len(p)] \in {"/", "..", "."} THEN None
    ELSE LET name == p[Len(p)]
             dot == LastDot(name, Len(name))
         IN IF dot <= 1 THEN Some(name) ELSE Some(SubSeq(name, 1, dot - 1))

-----------------------------------------------------------------------------
(* core/types.rs *)

SymbolKinds ==
    {"Function", "ArrowFunction", "Class", "Method", "Variable", "Constant",
     "Type", "Interface", "Enum", "EnumMember", "Namespace", "Module"}

\* Location::new (offsets and column are not used by the analysis)
Location(file_path, line) == [file_path |-> file_path, line |-> line]

\* TrackedSymbol::new
TrackedSymbol(id, name, kind, location, file_id) ==
    [id |-> id, name |-> name, kind |-> kind, location |-> location,
     exported |-> FALSE, is_entry_point |-> FALSE, has_decorators |-> FALSE,
     has_side_effects |-> FALSE, file_id |-> file_id]

\* FileInfo
FileInfo(id, path, has_side_effects, has_dynamic_eval, syms) ==
    [id |-> id, path |-> path, has_side_effects |-> has_side_effects,
     has_dynamic_eval |-> has_dynamic_eval, symbols |-> syms]

\* SymbolReference
SymbolReference(from_id, to_id, kind, is_dynamic) ==
    [from_id |-> from_id, to_id |-> to_id, kind |-> kind, is_dynamic |-> is_dynamic]

\* HashMap::insert on a map modelled as a function
MapInsert(m, k, v) == [x \in DOMAIN m \cup {k} |-> IF x = k THEN v ELSE m[x]]

\* HashMap<_, Vec<_>>: entry(k).or_default().push(v)
MapPush(m, k, v) ==
    [x \in DOMAIN m \cup {k} |->
        IF x = k THEN (IF k \in DOMAIN m THEN Append(m[k], v) ELSE <<v>>) ELSE m[x]]

\* CallGraph::new
NewCallGraph ==
    [symbols |-> <<>>, references |-> <<>>, entry_points |-> {},
     dynamic_patterns |-> <<>>, files |-> <<>>, incoming_refs |-> <<>>,
     outgoing_refs |-> <<>>, next_symbol_id |-> 0]

\* the CallGraph held in the state variables
Graph ==
    [symbols |-> symbols, references |-> references, entry_points |-> entry_points,
     dynamic_patterns |-> dynamic_patterns, files |-> files,
     incoming_refs |-> incoming_refs, outgoing_refs |-> outgoing_refs,
     next_symbol_id |-> next_symbol_id]

\* CallGraph::add_symbol
add_symbol(g, symbol) ==
    [g EXCEPT !.entry_points = IF symbol.is_entry_point THEN @ \cup {symbol.id} ELSE @,
              !.symbols = MapInsert(@, symbol.id, symbol)]

\* the sequence an index holds for an id, empty when it holds none
IndexGet(index, id) == IF id \in DOMAIN index THEN index[id] ELSE <<>>

\* mutant: an edge already in the indices is not pushed again
add_reference_dedup(g, reference) ==
    [g EXCEPT !.incoming_refs =
                  IF Contains(IndexGet(@, reference.to_id), reference.from_id)
                  THEN @ ELSE MapPush(@, reference.to_id, reference.from_id),
              !.outgoing_refs =
                  IF Contains(IndexGet(@, reference.from_id), reference.to_id)
                  THEN @ ELSE MapPush(@, reference.from_id, reference.to_id),
              !.references = Append(@, reference)]

\* CallGraph::add_reference
add_reference(g, reference) ==
    [g EXCEPT !.incoming_refs = MapPush(@, reference.to_id, reference.from_id),
              !.outgoing_refs = MapPush(@, reference.from_id, reference.to_id),
              !.references = Append(@, reference)]

\* CallGraph::add_file
add_file(g, file) == [g EXCEPT !.files = MapInsert(@, file.id, file)]

\* CallGraph::mark_entry_point
mark_entry_point(g, id) ==
    [g EXCEPT !.entry_points = @ \cup {id},
              !.symbols = IF id \in DOMAIN @
                          THEN [@ EXCEPT ![id].is_entry_point = TRUE] ELSE @]

\* mutant: the last exported symbol of that name is returned
find_export_last(g, file_id, name) ==
    IF file_id \notin DOMAIN g.files THEN None
    ELSE LET ids == g.files[file_id].symbols
             hits == { i \in DOMAIN ids :
                         /\ ids[i] \in DOMAIN g.symbols
                         /\ g.symbols[ids[i]].exported
                         /\ g.symbols[ids[i]].name = name }
         IN IF hits = {} THEN None
            ELSE Some(ids[CHOOSE i \in hits : \A j \in hits : i >= j])

\* CallGraph::find_export: the first exported symbol of that name in the
\* file's symbol list
find_export(g, file_id, name) ==
    IF file_id \notin DOMAIN g.files THEN None
    ELSE LET ids == g.files[file_id].symbols
             hits == { i \in DOMAIN ids :
                         /\ ids[i] \in DOMAIN g.symbols
                         /\ g.symbols[ids[i]].exported
                         /\ g.symbols[ids[i]].name = name }
         IN IF hits = {} THEN None
            ELSE Some(ids[CHOOSE i \in hits : \A j \in hits : i <= j])

\* CallGraph::get_incoming_refs
get_incoming_refs(g, id) ==
    IF id \in DOMAIN g.incoming_refs THEN g.incoming_refs[id] ELSE <<>>

\* CallGraph::get_outgoing_refs
get_outgoing_refs(g, id) ==
    IF id \in DOMAIN g.outgoing_refs THEN g.outgoing_refs[id] ELSE <<>>

\* Confidence::from_score
from_score(score) ==
    IF score <= 49 THEN "Low" ELSE IF score <= 79 THEN "Medium" ELSE "High"

\* the derived Ord of Confidence: Low < Medium < High
ConfidenceRank(c) == CASE c = "Low" -> 0 [] c = "Medium" -> 1 [] c = "High" -> 2

\* AnalysisResult::filter_by_confidence
filter_by_confidence(r, min_confidence) ==
    LET AtLeast(d) == ConfidenceRank(d.confidence) >= ConfidenceRank(min_confidence)
    IN SelectSeq(r.dead_symbols, AtLeast)

\* DeadnessReason; the explanation of Unreachable is its text and the count
\* formatted into it
NoExplanation == [text |-> "", n |-> 0]

Reason(tag, explanation, chain) ==
    [tag |-> tag, explanation |-> explanation, chain |-> chain]

\* DeadSymbol::new
DeadSymbolNew(symbol, confidence_score, reason) ==
    [symbol |-> symbol, confidence |-> from_score(confidence_score),
     confidence_score |-> confidence_score, reason |-> reason, killed_by |-> None]

\* DeadSymbol::transitive
DeadSymbolTransitive(symbol, confidence_score, chain, killed_by) ==
    [symbol |-> symbol, confidence |-> from_score(confidence_score),
     confidence_score |-> confidence_score,
     reason |-> Reason("Transitive", NoExplanation, chain), killed_by |-> Some(killed_by)]

-----------------------------------------------------------------------------
(* config/schema.rs *)

\* mutant: no pattern matches any name
RegexIsMatch_never(pattern, name) == FALSE

\* regex_lite::Regex::new(pattern).is_match(name) for the patterns that occur:
\* "^" followed by a literal matches names that start with the literal.
RegexIsMatch(pattern, name) ==
    /\ starts_with(pattern, "^")
    /\ starts_with(name, SubSeq(pattern, 2, Len(pattern)))

\* Config::should_ignore_symbol
should_ignore_symbol(cfg, name) ==
    \/ name \in cfg.ignore_symbols
    \/ \E i \in DOMAIN cfg.ignore_patterns : RegexIsMatch(cfg.ignore_patterns[i], name)

\* AnalysisConfig::default, EntryConfig::default, PluginsConfig::default
DefaultConfig ==
    [ignore_symbols |-> {}, ignore_patterns |-> <<"^_">>, include_types |-> TRUE,
     entry_files |-> <<>>, entry_patterns |-> <<>>, entry_exports |-> <<>>,
     auto_detect |-> TRUE, plugins_auto_detect |-> TRUE, plugins_enabled |-> <<>>]

-----------------------------------------------------------------------------
(* analysis/deadness/propagator.rs: mark_reachable_symbols *)

\* mutant: every target is enqueued, visited before or not
RECURSIVE visit_outgoing_requeue(_, _)
visit_outgoing_requeue(refs, st) ==
    IF refs = <<>> THEN st
    ELSE visit_outgoing_requeue(Tail(refs),
            [st EXCEPT !.reachable = @ \cup {Head(refs)},
                       !.queue = Append(@, Head(refs)),
                       !.enqueued = BagAdd(@, Head(refs))])

\* mutant: a newly found id is marked but never enqueued
RECURSIVE visit_outgoing_no_enqueue(_, _)
visit_outgoing_no_enqueue(refs, st) ==
    IF refs = <<>> THEN st
    ELSE visit_outgoing_no_enqueue(Tail(refs),
            [st EXCEPT !.reachable = @ \cup {Head(refs)}])

\* the body of `while let Some(current_id) = queue.pop_front()`: scan the
\* outgoing refs of the popped id in order, marking and enqueueing the new ones
RECURSIVE visit_outgoing(_, _)
visit_outgoing(refs, st) ==
    IF refs = <<>> THEN st
    ELSE LET ref_id == Head(refs)
         IN IF ref_id \notin st.reachable
            THEN visit_outgoing(Tail(refs),
                    [reachable |-> st.reachable \cup {ref_id},
                     queue |-> Append(st.queue, ref_id),
                     enqueued |-> BagAdd(st.enqueued, ref_id)])
            ELSE visit_outgoing(Tail(refs), st)

-----------------------------------------------------------------------------
(* analysis/deadness/transitive.rs: find_transitive_dead *)

\* mutant: the incoming refs are pushed without the unreachable_ids test
RECURSIVE build_referenced_by_unfiltered(_, _, _, _)
build_referenced_by_unfiltered(unr, g, unreachable_ids, map) ==
    IF unr = <<>> THEN map
    ELSE build_referenced_by_unfiltered(Tail(unr), g, unreachable_ids,
            [map EXCEPT ![Head(unr).id] = @ \o get_incoming_refs(g, Head(unr).id)])

\* referenced_by after both loops over `unreachable`: for every occurrence of
\* a symbol, its incoming refs that lie in unreachable_ids are pushed
RECURSIVE build_referenced_by(_, _, _, _)
build_referenced_by(unr, g, unreachable_ids, map) ==
    IF unr = <<>> THEN map
    ELSE LET id == Head(unr).id
             InU(r) == r \in unreachable_ids
             hits == SelectSeq(get_incoming_refs(g, id), InU)
         IN build_referenced_by(Tail(unr), g, unreachable_ids,
                                [map EXCEPT ![id] = @ \o hits])

\* symbol_map: id -> the symbol of `unreachable` with that id (last insert wins)
symbol_map_get(unr, id) ==
    unr[CHOOSE i \in DOMAIN unr :
            /\ unr[i].id = id
            /\ \A j \in DOMAIN unr : unr[j].id = id => j <= i]

\* mutant: every candidate is pushed on root_dead, also those with callers
find_transitive_dead_all_roots(unr, g) ==
    LET unreachable_ids == {unr[i].id : i \in DOMAIN unr}
        referenced_by ==
            build_referenced_by(unr, g, unreachable_ids,
                                [id \in unreachable_ids |-> <<>>])
        HasRefs(s) == Len(referenced_by[s.id]) # 0
        has_unreachable_refs == SelectSeq(unr, HasRefs)
    IN [directly_dead |-> unr,
        transitively_dead |->
            [i \in DOMAIN has_unreachable_refs |->
                LET id == has_unreachable_refs[i].id
                    chain == referenced_by[id]
                IN [symbol |-> symbol_map_get(unr, id), chain |-> chain,
                    killed_by |-> Head(chain)]]]

find_transitive_dead(unr, g) ==
    LET unreachable_ids == {unr[i].id : i \in DOMAIN unr}
        referenced_by ==
            build_referenced_by(unr, g, unreachable_ids,
                                [id \in unreachable_ids |-> <<>>])
        IsRoot(s) == Len(referenced_by[s.id]) = 0
        HasRefs(s) == Len(referenced_by[s.id]) # 0
        root_dead == SelectSeq(unr, IsRoot)
        has_unreachable_refs == SelectSeq(unr, HasRefs)
    IN [directly_dead |->
            [i \in DOMAIN root_dead |-> symbol_map_get(unr, root_dead[i].id)],
        transitively_dead |->
            [i \in DOMAIN has_unreachable_refs |->
                LET id == has_unreachable_refs[i].id
                    chain == referenced_by[id]
                IN [symbol |-> symbol_map_get(unr, id), chain |-> chain,
                    killed_by |-> Head(chain)]]]

-----------------------------------------------------------------------------
(* analysis/deadness/propagator.rs: find_dead_symbols *)

\* mutant: the reachable filter is dropped
collect_unreachable_no_reach(values, reach, cfg) ==
    LET Keep(s) == ~should_ignore_symbol(cfg, s.name)
    IN SelectSeq(values, Keep)

\* Phase 2: the symbols that are neither reachable nor ignored, in the order
\* in which symbols.values() yields them
collect_unreachable(values, reach, cfg) ==
    LET Keep(s) == s.id \notin reach /\ ~should_ignore_symbol(cfg, s.name)
    IN SelectSeq(values, Keep)

is_type_symbol(symbol) == symbol.kind \in {"Type", "Interface"}

generate_unreachable_explanation(symbol, g) ==
    LET incoming == get_incoming_refs(g, symbol.id)
    IN IF incoming = <<>>
       THEN (IF symbol.exported
             THEN [text |-> "exported but never imported", n |-> 0]
             ELSE [text |-> "never referenced", n |-> 0])
       ELSE [text |-> "referenced only by n dead symbol(s)", n |-> Len(incoming)]

create_dead_symbol(symbol, g) ==
    LET reason ==
            IF symbol.exported THEN Reason("UnusedExport", NoExplanation, <<>>)
            ELSE IF is_type_symbol(symbol) THEN Reason("UnusedType", NoExplanation, <<>>)
            ELSE Reason("Unreachable", generate_unreachable_explanation(symbol, g), <<>>)
    IN DeadSymbolNew(symbol, 100, reason)

create_transitive_dead_symbol(symbol, chain, killed_by) ==
    DeadSymbolTransitive(symbol, 95, chain, killed_by)

\* the comparator handed to sort_by: file path, then line
dead_symbol_cmp(a, b) ==
    LET file_cmp == PathCmp(a.symbol.location.file_path, b.symbol.location.file_path)
    IN IF file_cmp # 0 THEN file_cmp
       ELSE IntCmp(a.symbol.location.line, b.symbol.location.line)

\* mutant: the list is left in the order it was collected in
insert_sorted_unordered(sorted, x) == Append(sorted, x)

\* slice::sort_by is a stable sort: insertion keeps equal elements in order
insert_sorted(sorted, x) ==
    LET k == Cardinality({i \in DOMAIN sorted : dead_symbol_cmp(sorted[i], x) <= 0})
    IN SubSeq(sorted, 1, k) \o <<x>> \o SubSeq(sorted, k + 1, Len(sorted))

RECURSIVE sort_dead_symbols(_)
sort_dead_symbols(s) ==
    IF s = <<>> THEN <<>>
    ELSE insert_sorted(sort_dead_symbols(SubSeq(s, 1, Len(s) - 1)), s[Len(s)])

\* mutant: the directly dead symbols are not pushed
create_dead_symbols_transitive_only(td, g) ==
    sort_dead_symbols(
        [i \in DOMAIN td.transitively_dead |->
            create_transitive_dead_symbol(td.transitively_dead[i].symbol,
                                          td.transitively_dead[i].chain,
                                          td.transitively_dead[i].killed_by)])

\* Phase 4 and the sort
create_dead_symbols(td, g) ==
    sort_dead_symbols(
        [i \in DOMAIN td.directly_dead |-> create_dead_symbol(td.directly_dead[i], g)]
        \o [i \in DOMAIN td.transitively_dead |->
                create_transitive_dead_symbol(td.transitively_dead[i].symbol,
                                              td.transitively_dead[i].chain,
                                              td.transitively_dead[i].killed_by)])

\* mark_reachable_symbols, the while loop run to the end
RECURSIVE bfs_loop(_, _)
bfs_loop(g, st) ==
    IF st.queue = <<>> THEN st.reachable
    ELSE bfs_loop(g, visit_outgoing(get_outgoing_refs(g, Head(st.queue)),
                                    [st EXCEPT !.queue = Tail(@)]))

\* mark_reachable_symbols, with the order in which the HashSet yields the
\* entry points
mark_reachable_symbols(g, entry_order) ==
    bfs_loop(g, [reachable |-> g.entry_points, queue |-> entry_order,
                 enqueued |-> [id \in g.entry_points |-> 1]])

\* find_dead_symbols as one call, with the orders in which the HashSet of
\* entry points and the HashMap of symbols are iterated
find_dead_symbols(g, cfg, entry_order, symbol_order) ==
    LET values == [i \in DOMAIN symbol_order |-> g.symbols[symbol_order[i]]]
        reach == mark_reachable_symbols(g, entry_order)
    IN create_dead_symbols(find_transitive_dead(collect_unreachable(values, reach, cfg), g), g)

-----------------------------------------------------------------------------
(* analysis/confidence: patterns.rs and scorer.rs *)

DynamicPatternKinds ==
    {"BracketAccess", "Eval", "FunctionConstructor", "Reflect", "ObjectIteration",
     "StringPropertyAccess", "DynamicRequire", "DynamicImport"}

\* mutant: no file is ever seen to hold a dynamic evaluation
detect_dynamic_patterns_none(g) == FALSE

\* detect_dynamic_patterns
detect_dynamic_patterns(g) == \E f \in DOMAIN g.files : g.files[f].has_dynamic_eval

is_type_only(kind) == kind \in {"Type", "Interface"}

\* mutant: every pattern kind costs the same
pattern_penalty_flat(kind) == 20

\* Rule 8: what one affecting pattern takes off the score
pattern_penalty(kind) ==
    CASE kind \in {"Eval", "FunctionConstructor"} -> 40
      [] kind = "Reflect" -> 30
      [] kind \in {"BracketAccess", "StringPropertyAccess"} -> 20
      [] kind = "ObjectIteration" -> 15
      [] kind \in {"DynamicImport", "DynamicRequire"} -> 25

\* Rule 8: the loop over call_graph.dynamic_patterns
RECURSIVE apply_patterns(_, _, _)
apply_patterns(patterns, id, score) ==
    IF patterns = <<>> THEN score
    ELSE apply_patterns(Tail(patterns), id,
            IF Contains(Head(patterns).affected_symbols, id)
            THEN score - pattern_penalty(Head(patterns).kind)
            ELSE score)

\* mutant: the lower bound is not applied
clamp_no_floor(x, lo, hi) == IF x > hi THEN hi ELSE x

\* i32::clamp
clamp(x, lo, hi) == IF x < lo THEN lo ELSE IF x > hi THEN hi ELSE x

\* `as u8` on an i32
AsU8(x) == x % 256

\* the body of `for dead in &mut dead_symbols`
score_dead_symbol(dead, g, file_has_eval, has_global_dynamic) ==
    LET s0 == dead.confidence_score
        s1 == IF dead.symbol.has_decorators THEN s0 - 20 ELSE s0
        s2 == IF dead.symbol.exported THEN s1 - 10 ELSE s1
        s3 == IF dead.symbol.file_id \in file_has_eval THEN s2 - 30 ELSE s2
        s4 == IF has_global_dynamic THEN s3 - 15 ELSE s3
        s5 == IF dead.reason.tag = "Transitive" THEN s4 - 5 ELSE s4
        s6 == IF is_type_only(dead.symbol.kind) THEN s5 + 5 ELSE s5
        s7 == IF starts_with(dead.symbol.name, "_") /\ ~starts_with(dead.symbol.name, "__")
              THEN s6 + 5 ELSE s6
        s8 == apply_patterns(g.dynamic_patterns, dead.symbol.id, s7)
        s9 == IF dead.symbol.name = "default" THEN s8 - 10 ELSE s8
        s10 == IF dead.symbol.kind = "Method" THEN s9 - 5 ELSE s9
        confidence_score == AsU8(clamp(s10, 0, 100))
    IN [dead EXCEPT !.confidence_score = confidence_score,
                    !.confidence = from_score(confidence_score)]

score_dead_symbols(dead, g, cfg) ==
    LET file_has_eval == {g.files[f].id : f \in {x \in DOMAIN g.files : g.files[x].has_dynamic_eval}}
        has_global_dynamic == detect_dynamic_patterns(g)
        scored == [i \in DOMAIN dead |->
                      score_dead_symbol(dead[i], g, file_has_eval, has_global_dynamic)]
        NotType(d) == ~is_type_only(d.symbol.kind)
    IN IF ~cfg.include_types THEN SelectSeq(scored, NotType) ELSE scored

-----------------------------------------------------------------------------
(* The parsed program.  The parser is external; a program is the list of   *)
(* its top-level statements, each a record tagged with its AST node type.  *)
(* `line` is the line of the span the extractors turn into a Location.     *)

Ident(name) == [type |-> "Identifier", name |-> name]

StringLit(value) == [type |-> "StringLiteral", value |-> value]

StaticMember(object, property) ==
    [type |-> "StaticMemberExpression", object |-> object, property |-> property]

CallExpr(callee, arguments) ==
    [type |-> "CallExpression", callee |-> callee, arguments |-> arguments]

NewExpr(callee, arguments) ==
    [type |-> "NewExpression", callee |-> callee, arguments |-> arguments]

ImportExpr(source, line) ==
    [type |-> "ImportExpression", source |-> source, line |-> line]

ExprStmt(expression) == [type |-> "ExpressionStatement", expression |-> expression]

ReturnStmt(argument) == [type |-> "ReturnStatement", argument |-> argument]

FunctionDecl(name, line, body) ==
    [type |-> "FunctionDeclaration", id |-> name, line |-> line, body |-> body]

ClassDecl(name, line) == [type |-> "ClassDeclaration", id |-> name, line |-> line]

InterfaceDecl(name, line) == [type |-> "TSInterfaceDeclaration", id |-> name, line |-> line]

TypeAliasDecl(name, line) == [type |-> "TSTypeAliasDeclaration", id |-> name, line |-> line]

\* `const x = init` / `let x = init`: kind is "const", "let" or "var", each
\* declarator binds one identifier and has an optional initializer
Declarator(name, line, init) == [id |-> name, line |-> line, init |-> init]

VariableDecl(kind, declarations) ==
    [type |-> "VariableDeclaration", kind |-> kind, declarations |-> declarations]

ImportSpecifier(imported, local, line) ==
    [type |-> "ImportSpecifier", imported |-> imported, local |-> local, line |-> line]

ImportDefaultSpecifier(local, line) ==
    [type |-> "ImportDefaultSpecifier", imported |-> "default", local |-> local, line |-> line]

ImportNamespaceSpecifier(local, line) ==
    [type |-> "ImportNamespaceSpecifier", imported |-> "*", local |-> local, line |-> line]

ImportDecl(specifiers, source) ==
    [type |-> "ImportDeclaration", specifiers |-> specifiers, source |-> source]

\* `export <declaration>`
ExportNamedDecl(declaration) ==
    [type |-> "ExportNamedDeclaration", declaration |-> Some(declaration),
     specifiers |-> <<>>]

\* `export { name, ... }`: no declaration, the local names of the specifiers
ExportSpecifierList(names) ==
    [type |-> "ExportNamedDeclaration", declaration |-> None, specifiers |-> names]

\* `export default <declaration>`, for a named function, class or interface
ExportDefaultDecl(declaration) ==
    [type |-> "ExportDefaultDeclaration", declaration |-> declaration]

-----------------------------------------------------------------------------
(* analysis/call_graph/symbols.rs: SymbolExtractor *)

\* what add_symbol is called with, before the id is allocated
PendingSymbol(name, kind, line, exported) ==
    [name |-> name, kind |-> kind, line |-> line, exported |-> exported]

variable_kind(decl) == IF decl.kind = "const" THEN "Constant" ELSE "Variable"

\* visit_export_named_declaration: the declaration is recorded as exported
\* and is not walked; the specifiers of `export { .. }` record nothing
visit_export_named_declaration(decl) ==
    IF decl.declaration = None THEN <<>>
    ELSE
    LET d == decl.declaration[1]
    IN CASE d.type = "FunctionDeclaration" ->
                <<PendingSymbol(d.id, "Function", d.line, TRUE)>>
         [] d.type = "ClassDeclaration" ->
                <<PendingSymbol(d.id, "Class", d.line, TRUE)>>
         [] d.type = "VariableDeclaration" ->
                [i \in DOMAIN d.declarations |->
                    PendingSymbol(d.declarations[i].id, variable_kind(d),
                                  d.declarations[i].line, TRUE)]
         [] d.type = "TSTypeAliasDeclaration" ->
                <<PendingSymbol(d.id, "Type", d.line, TRUE)>>
         [] d.type = "TSInterfaceDeclaration" ->
                <<PendingSymbol(d.id, "Interface", d.line, TRUE)>>

\* visit_export_default_declaration, before its walk: the declaration is
\* recorded as exported under its own name
visit_export_default_declaration(decl) ==
    LET d == decl.declaration
    IN CASE d.type = "FunctionDeclaration" ->
                <<PendingSymbol(d.id, "Function", d.line, TRUE)>>
         [] d.type = "ClassDeclaration" ->
                <<PendingSymbol(d.id, "Class", d.line, TRUE)>>
         [] d.type = "TSInterfaceDeclaration" ->
                <<PendingSymbol(d.id, "Interface", d.line, TRUE)>>
         [] OTHER -> <<>>

\* the add_symbol calls of visit_program, in visiting order: visit_function,
\* visit_class, visit_variable_declaration and the TS visitors record the
\* declaration whatever the scope depth and then walk into it
RECURSIVE extract_symbols(_)
extract_symbols(stmts) ==
    IF stmts = <<>> THEN <<>>
    ELSE LET stmt == Head(stmts)
             here ==
                CASE stmt.type = "FunctionDeclaration" ->
                        <<PendingSymbol(stmt.id, "Function", stmt.line, FALSE)>>
                            \o extract_symbols(stmt.body)
                  [] stmt.type = "ClassDeclaration" ->
                        <<PendingSymbol(stmt.id, "Class", stmt.line, FALSE)>>
                  [] stmt.type = "VariableDeclaration" ->
                        [i \in DOMAIN stmt.declarations |->
                            PendingSymbol(stmt.declarations[i].id, variable_kind(stmt),
                                          stmt.declarations[i].line, FALSE)]
                  [] stmt.type = "TSTypeAliasDeclaration" ->
                        <<PendingSymbol(stmt.id, "Type", stmt.line, FALSE)>>
                  [] stmt.type = "TSInterfaceDeclaration" ->
                        <<PendingSymbol(stmt.id, "Interface", stmt.line, FALSE)>>
                  [] stmt.type = "ExportNamedDeclaration" ->
                        visit_export_named_declaration(stmt)
                  [] stmt.type = "ExportDefaultDeclaration" ->
                        visit_export_default_declaration(stmt)
                            \o extract_symbols(<<stmt.declaration>>)
                  [] OTHER -> <<>>
         IN here \o extract_symbols(Tail(stmts))

expression_has_side_effects(expr) ==
    expr.type \in {"CallExpression", "NewExpression", "AssignmentExpression",
                   "UpdateExpression", "AwaitExpression", "YieldExpression"}

\* has_side_effects: set by visit_variable_declaration at scope depth 0, that
\* is for the declarations of the top-level statement list (an exported
\* declaration is not walked and a function body is at depth 1)
extract_has_side_effects(program) ==
    \E i \in DOMAIN program :
        /\ program[i].type = "VariableDeclaration"
        /\ \E k \in DOMAIN program[i].declarations :
              LET init == program[i].declarations[k].init
              IN init # None /\ expression_has_side_effects(init[1])

-----------------------------------------------------------------------------
(* analysis/call_graph/references.rs: ReferenceExtractor *)

ImportInfo(local_symbol_id, imported_name, resolved_path, is_dynamic, line) ==
    [local_symbol_id |-> local_symbol_id, imported_name |-> imported_name,
     resolved_path |-> resolved_path, is_dynamic |-> is_dynamic, line |-> line]

\* resolve_import_specifier
resolve_import_specifier(specifier, from_file) ==
    LET parent == PathParent(from_file)
        from_dir == IF parent = None THEN <<".">> ELSE parent[1]
    IN IF starts_with(specifier, ".") THEN PathJoin(from_dir, specifier)
       ELSE IF starts_with(specifier, "/") THEN PathFrom(specifier)
       ELSE PathFrom("node_modules/" \o specifier)

\* mutant: placeholders are counted up from zero, where symbol ids live
placeholder_id_from_zero(imports) == Len(imports)

\* the placeholder id of the next import
placeholder_id(imports) == U32Max - Len(imports)

\* process_import: one ImportInfo per specifier
RECURSIVE process_specifiers(_, _, _)
process_specifiers(specifiers, resolved_path, imports) ==
    IF specifiers = <<>> THEN imports
    ELSE process_specifiers(Tail(specifiers), resolved_path,
            Append(imports,
                   ImportInfo(placeholder_id(imports), Head(specifiers).imported,
                              resolved_path, FALSE, Head(specifiers).line)))

process_import(import, file_path, imports) ==
    process_specifiers(import.specifiers,
                       resolve_import_specifier(import.source, file_path), imports)

\* extract, first loop: the top-level import declarations in order
RECURSIVE collect_imports(_, _, _)
collect_imports(stmts, file_path, imports) ==
    IF stmts = <<>> THEN imports
    ELSE collect_imports(Tail(stmts), file_path,
            IF Head(stmts).type = "ImportDeclaration"
            THEN process_import(Head(stmts), file_path, imports)
            ELSE imports)

\* visit_call_expression: eval(..), Function(..) and Reflect.x(..)
call_is_dynamic_eval(expr) ==
    \/ expr.callee.type = "Identifier" /\ expr.callee.name \in {"eval", "Function"}
    \/ /\ expr.callee.type = "StaticMemberExpression"
       /\ expr.callee.object.type = "Identifier"
       /\ expr.callee.object.name = "Reflect"

\* the walk of visit_program; st is [imports, has_dynamic_eval]
RECURSIVE ref_visit_expression(_, _, _)
RECURSIVE ref_visit_expressions(_, _, _)
RECURSIVE ref_visit_statements(_, _, _)

ref_visit_expressions(exprs, file_path, st) ==
    IF exprs = <<>> THEN st
    ELSE ref_visit_expressions(Tail(exprs), file_path,
                               ref_visit_expression(Head(exprs), file_path, st))

ref_visit_expression(expr, file_path, st) ==
    CASE expr.type \in {"CallExpression", "NewExpression"} ->
            LET st1 == IF expr.type = "CallExpression" /\ call_is_dynamic_eval(expr)
                       THEN [st EXCEPT !.has_dynamic_eval = TRUE] ELSE st
            IN ref_visit_expressions(<<expr.callee>> \o expr.arguments, file_path, st1)
      [] expr.type = "ImportExpression" ->
            IF expr.source.type = "StringLiteral"
            THEN [st EXCEPT !.imports =
                    Append(@, ImportInfo(placeholder_id(st.imports), "*",
                                         resolve_import_specifier(expr.source.value, file_path),
                                         TRUE, expr.line))]
            ELSE ref_visit_expression(expr.source, file_path,
                                      [st EXCEPT !.has_dynamic_eval = TRUE])
      [] expr.type = "StaticMemberExpression" ->
            ref_visit_expression(expr.object, file_path, st)
      [] OTHER -> st

ref_visit_statements(stmts, file_path, st) ==
    IF stmts = <<>> THEN st
    ELSE LET stmt == Head(stmts)
             st1 ==
                CASE stmt.type = "ExpressionStatement" ->
                        ref_visit_expression(stmt.expression, file_path, st)
                  [] stmt.type = "ReturnStatement" ->
                        ref_visit_expression(stmt.argument, file_path, st)
                  [] stmt.type = "FunctionDeclaration" ->
                        ref_visit_statements(stmt.body, file_path, st)
                  [] stmt.type = "VariableDeclaration" ->
                        ref_visit_expressions(
                            [i \in DOMAIN SelectSeq(stmt.declarations, LAMBDA d : d.init # None) |->
                                SelectSeq(stmt.declarations, LAMBDA d : d.init # None)[i].init[1]],
                            file_path, st)
                  [] stmt.type = "ExportNamedDeclaration" ->
                        ref_visit_statements(stmt.declaration, file_path, st)
                  [] stmt.type = "ExportDefaultDeclaration" ->
                        ref_visit_statements(<<stmt.declaration>>, file_path, st)
                  [] OTHER -> st
         IN ref_visit_statements(Tail(stmts), file_path, st1)

\* ReferenceExtractor::extract: (references, imports, has_dynamic_eval); no
\* visitor pushes onto self.references
extract_references(program, file_path) ==
    LET st == ref_visit_statements(program, file_path,
                  [imports |-> collect_imports(program, file_path, <<>>),
                   has_dynamic_eval |-> FALSE])
    IN [references |-> <<>>, imports |-> st.imports,
        has_dynamic_eval |-> st.has_dynamic_eval]

-----------------------------------------------------------------------------
(* analysis/call_graph/builder.rs *)

FileAnalysis(file_info, syms, refs, imports) ==
    [file_info |-> file_info, symbols |-> syms, references |-> refs,
     imports |-> imports]

Extensions == <<"ts", "tsx", "js", "jsx", "mts", "cts">>

\* the first of the candidate paths that is a key of the map
RECURSIVE first_known(_, _)
first_known(candidates, path_to_file_id) ==
    IF candidates = <<>> THEN None
    ELSE IF Head(candidates) \in DOMAIN path_to_file_id
         THEN Some(path_to_file_id[Head(candidates)])
         ELSE first_known(Tail(candidates), path_to_file_id)

\* mutant: the index candidates are tried first, the exact path last
resolve_import_path_index_first(resolved_path, path_to_file_id) ==
    LET stem == PathFileStem(resolved_path)
        parent == PathParent(resolved_path)
    IN IF stem = None \/ parent = None THEN None
       ELSE first_known(
                [i \in DOMAIN Extensions |->
                    PathJoin(resolved_path, "index." \o Extensions[i])]
                \o [i \in DOMAIN Extensions |->
                    PathJoin(parent[1], stem[1] \o "." \o Extensions[i])]
                \o <<resolved_path>>,
                path_to_file_id)

\* resolve_import_path
resolve_import_path(resolved_path, path_to_file_id) ==
    IF resolved_path \in DOMAIN path_to_file_id THEN Some(path_to_file_id[resolved_path])
    ELSE LET stem == PathFileStem(resolved_path)
             parent == PathParent(resolved_path)
         IN IF stem = None \/ parent = None THEN None
            ELSE first_known(
                    [i \in DOMAIN Extensions |->
                        PathJoin(parent[1], stem[1] \o "." \o Extensions[i])]
                    \o [i \in DOMAIN Extensions |->
                        PathJoin(resolved_path, "index." \o Extensions[i])],
                    path_to_file_id)

\* build_call_graph, first pass
RECURSIVE add_symbols(_, _)
add_symbols(g, syms) ==
    IF syms = <<>> THEN g ELSE add_symbols(add_symbol(g, Head(syms)), Tail(syms))

RECURSIVE first_pass(_, _)
first_pass(g, file_analyses) ==
    IF file_analyses = <<>> THEN g
    ELSE first_pass(add_symbols(add_file(g, Head(file_analyses).file_info),
                                Head(file_analyses).symbols),
                    Tail(file_analyses))

\* build_call_graph, second pass
RECURSIVE add_references(_, _)
add_references(g, refs) ==
    IF refs = <<>> THEN g ELSE add_references(add_reference(g, Head(refs)), Tail(refs))

RECURSIVE resolve_imports(_, _, _)
resolve_imports(g, imports, path_to_file_id) ==
    IF imports = <<>> THEN g
    ELSE LET import == Head(imports)
             target_file_id == resolve_import_path(import.resolved_path, path_to_file_id)
             target_symbol_id ==
                IF target_file_id = None THEN None
                ELSE find_export(g, target_file_id[1], import.imported_name)
             g1 == IF target_symbol_id = None THEN g
                   ELSE add_reference(g,
                            SymbolReference(import.local_symbol_id, target_symbol_id[1],
                                            "Import", import.is_dynamic))
         IN resolve_imports(g1, Tail(imports), path_to_file_id)

RECURSIVE second_pass(_, _, _)
second_pass(g, file_analyses, path_to_file_id) ==
    IF file_analyses = <<>> THEN g
    ELSE second_pass(
            resolve_imports(add_references(g, Head(file_analyses).references),
                            Head(file_analyses).imports, path_to_file_id),
            Tail(file_analyses), path_to_file_id)

-----------------------------------------------------------------------------
(* analysis/entry_points *)

RECURSIVE mark_entry_points(_, _)
mark_entry_points(g, ids) ==
    IF ids = {} THEN g
    ELSE LET id == CHOOSE x \in ids : TRUE
         IN mark_entry_points(mark_entry_point(g, id), ids \ {id})

\* the symbols of a file that pass the filter, all marked
mark_file_symbols(g, file_id, special_exports, exported_only) ==
    mark_entry_points(g,
        { id \in DOMAIN g.symbols :
            /\ g.symbols[id].file_id = file_id
            /\ (~exported_only \/ g.symbols[id].exported
                               \/ g.symbols[id].name \in special_exports) })

RECURSIVE mark_files_symbols(_, _, _, _)
mark_files_symbols(g, file_ids, special_exports, exported_only) ==
    IF file_ids = {} THEN g
    ELSE LET fid == CHOOSE x \in file_ids : TRUE
         IN mark_files_symbols(mark_file_symbols(g, fid, special_exports, exported_only),
                               file_ids \ {fid}, special_exports, exported_only)

\* mark_file_exports_as_entry_points
mark_file_exports_as_entry_points(g, file_path) ==
    mark_files_symbols(g, { fid \in DOMAIN g.files : g.files[fid].path = file_path },
                       {}, TRUE)

\* mark_pattern_as_entry_points; a pattern is given by the paths that
\* glob::Pattern::new(root.join(pattern)).matches_path accepts
mark_pattern_as_entry_points(g, pattern) ==
    mark_files_symbols(g, { fid \in DOMAIN g.files : g.files[fid].path \in pattern.matches },
                       {}, TRUE)

\* paths_match, for paths the file system has no symbolic links for (so that
\* canonicalize adds nothing to the direct comparison of two absolute paths)
paths_match(path1, path2) ==
    \/ path1 = path2
    \/ /\ PathFileStem(path1) = PathFileStem(path2)
       /\ PathParent(path1) = PathParent(path2)

\* mark_package_json_entry_points; `order` is the iteration order of
\* call_graph.files.values(), which decides what find returns
RECURSIVE mark_package_json_entry_points(_, _, _)
mark_package_json_entry_points(g, entry_files, order) ==
    IF entry_files = <<>> THEN g
    ELSE LET hits == SelectSeq(order,
                        LAMBDA fid : paths_match(g.files[fid].path, Head(entry_files)))
             g1 == IF hits = <<>> THEN g
                   ELSE mark_file_symbols(g, Head(hits), {}, TRUE)
         IN mark_package_json_entry_points(g1, Tail(entry_files), order)

\* mark_framework_entry_points, for one detector
RECURSIVE mark_framework_entry_points(_, _, _)
mark_framework_entry_points(g, entry_patterns, special_exports) ==
    IF entry_patterns = <<>> THEN g
    ELSE mark_framework_entry_points(
            mark_files_symbols(g,
                { fid \in DOMAIN g.files :
                    g.files[fid].path \in Head(entry_patterns).matches },
                special_exports, TRUE),
            Tail(entry_patterns), special_exports)

\* discover_framework_entry_points
RECURSIVE discover_framework_entry_points(_, _)
discover_framework_entry_points(g, detectors) ==
    IF detectors = <<>> THEN g
    ELSE discover_framework_entry_points(
            mark_framework_entry_points(g, Head(detectors).entry_patterns,
                                        Head(detectors).special_exports),
            Tail(detectors))

\* mark_export_as_entry_point
mark_export_as_entry_point(g, export_name) ==
    mark_entry_points(g, { id \in DOMAIN g.symbols :
                            g.symbols[id].exported /\ g.symbols[id].name = export_name })

\* mark_side_effect_files_as_entry_points
mark_side_effect_files_as_entry_points(g) ==
    mark_files_symbols(g, { fid \in DOMAIN g.files : g.files[fid].has_side_effects },
                       {}, FALSE)

RECURSIVE fold_entry_files(_, _)
fold_entry_files(g, entry_files) ==
    IF entry_files = <<>> THEN g
    ELSE fold_entry_files(mark_file_exports_as_entry_points(g, Head(entry_files)),
                          Tail(entry_files))

RECURSIVE fold_entry_patterns(_, _)
fold_entry_patterns(g, patterns) ==
    IF patterns = <<>> THEN g
    ELSE fold_entry_patterns(mark_pattern_as_entry_points(g, Head(patterns)),
                             Tail(patterns))

RECURSIVE fold_entry_exports(_, _)
fold_entry_exports(g, exports) ==
    IF exports = <<>> THEN g
    ELSE fold_entry_exports(mark_export_as_entry_point(g, Head(exports)), Tail(exports))

\* discover_entry_points; proj.package_json is what
\* extract_entry_points_from_package_json returns when root/package.json
\* exists, proj.detectors what detect_frameworks returns
discover_entry_points(g, proj, cfg, order) ==
    LET g1 == fold_entry_files(g, cfg.entry_files)
        g2 == fold_entry_patterns(g1, cfg.entry_patterns)
        g3 == IF cfg.auto_detect /\ proj.package_json # None
              THEN mark_package_json_entry_points(g2, proj.package_json[1].files, order)
              ELSE g2
        g4 == IF cfg.plugins_auto_detect \/ cfg.plugins_enabled # <<>>
              THEN discover_framework_entry_points(g3, proj.detectors)
              ELSE g3
        g5 == fold_entry_exports(g4, cfg.entry_exports)
    IN mark_side_effect_files_as_entry_points(g5)

-----------------------------------------------------------------------------
(* State shared by the specifications *)

SetGraph(g) ==
    /\ symbols' = g.symbols
    /\ references' = g.references
    /\ entry_points' = g.entry_points
    /\ dynamic_patterns' = g.dynamic_patterns
    /\ files' = g.files
    /\ incoming_refs' = g.incoming_refs
    /\ outgoing_refs' = g.outgoing_refs
    /\ next_symbol_id' = g.next_symbol_id

NoResult == [produced |-> FALSE, dead_symbols |-> <<>>, total_symbols |-> 0,
             total_files |-> 0, warnings |-> <<>>]

InitGraph ==
    /\ symbols = <<>>
    /\ references = <<>>
    /\ entry_points = {}
    /\ dynamic_patterns = <<>>
    /\ files = <<>>
    /\ incoming_refs = <<>>
    /\ outgoing_refs = <<>>
    /\ next_symbol_id = 0

InitAnalysis ==
    /\ reachable = {}
    /\ queue = <<>>
    /\ enqueued = <<>>
    /\ unreachable = <<>>
    /\ directly_dead = <<>>
    /\ transitively_dead = <<>>
    /\ result = NoResult

InitBuild ==
    /\ project = <<>>
    /\ file_id_counter = 0
    /\ symbol_id_counter = 0
    /\ file_id_map = <<>>
    /\ workers = <<>>

-----------------------------------------------------------------------------
(* find_dead_symbols, step by step *)

\* mutant: the entry points are enqueued without being marked
BfsStart_unmarked ==
    /\ pc \in {"graph", "find_dead"}
    /\ \E order \in Orders(entry_points) :
          queue' = order
    /\ enqueued' = [id \in entry_points |-> 1]
    /\ reachable' = {}
    /\ pc' = "bfs"
    /\ UNCHANGED <<graphVars, config, deadVars, buildVars, result>>

\* mark_reachable_symbols, the loop over entry_points: every entry point is
\* marked and enqueued, in the iteration order of the HashSet
BfsStart ==
    /\ pc \in {"graph", "find_dead"}
    /\ \E order \in Orders(entry_points) :
          queue' = order
    /\ enqueued' = [id \in entry_points |-> 1]
    /\ reachable' = entry_points
    /\ pc' = "bfs"
    /\ UNCHANGED <<graphVars, config, deadVars, buildVars, result>>

\* mark_reachable_symbols, one iteration of the while loop
BfsStep ==
    /\ pc = "bfs"
    /\ queue # <<>>
    /\ LET current_id == Head(queue)
           st == visit_outgoing(get_outgoing_refs(Graph, current_id),
                                [reachable |-> reachable, queue |-> Tail(queue),
                                 enqueued |-> enqueued])
       IN /\ reachable' = st.reachable
          /\ queue' = st.queue
          /\ enqueued' = st.enqueued
    /\ UNCHANGED <<graphVars, config, pc, deadVars, buildVars, result>>

\* find_dead_symbols, phases 2 to 4 and the sort, once the queue is empty
FindDead ==
    /\ pc = "bfs"
    /\ queue = <<>>
    /\ \E order \in Orders(DOMAIN symbols) :
          LET values == [i \in DOMAIN order |-> symbols[order[i]]]
          IN \E unr \in {collect_unreachable(values, reachable, config)} :
                \E td \in {find_transitive_dead(unr, Graph)} :
                   /\ unreachable' = unr
                   /\ directly_dead' = td.directly_dead
                   /\ transitively_dead' = td.transitively_dead
                   /\ dead_symbols' = create_dead_symbols(td, Graph)
    /\ pc' = "score"
    /\ UNCHANGED <<graphVars, config, bfsVars, buildVars, result>>

\* score_dead_symbols(dead_symbols, &call_graph, &config)
ScoreDeadSymbols ==
    /\ pc = "score"
    /\ dead_symbols' = score_dead_symbols(dead_symbols, Graph, config)
    /\ pc' = "scored"
    /\ UNCHANGED <<graphVars, config, bfsVars, unreachable, directly_dead,
                   transitively_dead, buildVars, result>>

-----------------------------------------------------------------------------
(* Spec: a CallGraph built call by call, then find_dead_symbols *)

\* ids that references and mark_entry_point may name: the allocated ones and
\* the first that has no symbol yet
NodeIds == 0..next_symbol_id

TestFile == PathFrom("test.ts")

\* the symbols the driver adds under a freshly allocated id
DriverSymbols(id) ==
    { TrackedSymbol(id, "foo", "Function", Location(TestFile, 1), 0),
      TrackedSymbol(id, "_bar", "Function", Location(TestFile, 2), 0) }

Init ==
    /\ InitGraph
    /\ InitAnalysis
    /\ InitBuild
    /\ dead_symbols = <<>>
    /\ config = DefaultConfig
    /\ pc = "graph"

\* the calls made on the graph so far
DriverCalls == next_symbol_id + Len(references) + Cardinality(entry_points)

\* alloc_symbol_id followed by add_symbol
AddSymbol ==
    /\ pc = "graph"
    /\ next_symbol_id < MaxSym
    /\ DriverCalls < MaxOps
    /\ \E symbol \in DriverSymbols(next_symbol_id) :
          SetGraph(add_symbol([Graph EXCEPT !.next_symbol_id = @ + 1], symbol))
    /\ UNCHANGED <<config, pc, bfsVars, deadVars, buildVars, result>>

AddReference ==
    /\ pc = "graph"
    /\ Len(references) < MaxRefs
    /\ DriverCalls < MaxOps
    /\ \E from_id \in NodeIds, to_id \in NodeIds :
          SetGraph(add_reference(Graph, SymbolReference(from_id, to_id, "Call", FALSE)))
    /\ UNCHANGED <<config, pc, bfsVars, deadVars, buildVars, result>>

MarkEntryPoint ==
    /\ pc = "graph"
    /\ Cardinality(entry_points) < MaxEntries
    /\ DriverCalls < MaxOps
    /\ \E id \in NodeIds : SetGraph(mark_entry_point(Graph, id))
    /\ UNCHANGED <<config, pc, bfsVars, deadVars, buildVars, result>>

Next ==
    \/ AddSymbol
    \/ AddReference
    \/ MarkEntryPoint
    \/ BfsStart
    \/ BfsStep
    \/ FindDead

Spec == Init /\ [][Next]_vars

\* a graph is built and mark_reachable_symbols is run on it
NextMark ==
    \/ AddSymbol
    \/ AddReference
    \/ MarkEntryPoint
    \/ BfsStart
    \/ BfsStep

\* the while loop of mark_reachable_symbols has nothing to wait for: an
\* iteration that can be taken is taken
SpecLive == Init /\ [][NextMark]_vars /\ WF_vars(BfsStep)

-----------------------------------------------------------------------------
(* SpecScore: score_dead_symbols applied to one finding of find_dead_symbols *)

DynamicPattern(kind, affected_symbols) ==
    [kind |-> kind, affected_symbols |-> affected_symbols]

ScoredNames == {"foo", "_private", "__dunder", "default"}

ScoredKinds == {"Function", "Type", "Interface", "Method"}

\* a second file, with no symbol
LibFile == PathFrom("lib.ts")

\* the symbol with id 0 of file 0 that the finding is about
ScoredSymbols ==
    { [TrackedSymbol(0, name, kind, Location(TestFile, 1), 0)
         EXCEPT !.exported = exported, !.has_decorators = has_decorators] :
        name \in ScoredNames, kind \in ScoredKinds,
        exported \in BOOLEAN, has_decorators \in BOOLEAN }

\* a pattern of any kind affecting symbol 0, or one affecting another symbol
PatternChoices ==
    {DynamicPattern(kind, <<0>>) : kind \in DynamicPatternKinds}
        \cup {DynamicPattern("Eval", <<1>>)}

PatternLists == UNION {[1..n -> PatternChoices] : n \in 0..MaxPatterns}

InitScore ==
    /\ InitAnalysis
    /\ InitBuild
    /\ \E symbol \in ScoredSymbols, own_eval \in BOOLEAN, other_eval \in BOOLEAN,
          patterns \in PatternLists, transitive \in BOOLEAN, include_types \in BOOLEAN :
          \E g \in {[add_file(add_file(add_symbol(NewCallGraph, symbol),
                                        FileInfo(0, TestFile, FALSE, own_eval, <<0>>)),
                               FileInfo(1, LibFile, FALSE, other_eval, <<>>))
                        EXCEPT !.dynamic_patterns = patterns]} :
             /\ symbols = g.symbols
             /\ references = g.references
             /\ entry_points = g.entry_points
             /\ dynamic_patterns = g.dynamic_patterns
             /\ files = g.files
             /\ incoming_refs = g.incoming_refs
             /\ outgoing_refs = g.outgoing_refs
             /\ next_symbol_id = g.next_symbol_id
             /\ config = [DefaultConfig EXCEPT !.include_types = include_types,
                                               !.ignore_patterns = <<>>]
             /\ dead_symbols =
                    IF transitive
                    THEN <<create_transitive_dead_symbol(symbol, <<1>>, 1)>>
                    ELSE <<create_dead_symbol(symbol, g)>>
    /\ pc = "score"

NextScore == ScoreDeadSymbols

SpecScore == InitScore /\ [][NextScore]_vars

-----------------------------------------------------------------------------
(* Properties of the confidence scorer (checked under SpecScore) *)

Scored == pc = "scored"

\* C9: after score_dead_symbols every finding has a score in 0..100 and the
\* class that the thresholds 80 and 50 give it
C9_ScoreRangeAndClass ==
    Scored =>
        \A i \in DOMAIN dead_symbols :
            LET d == dead_symbols[i]
            IN /\ d.confidence_score \in 0..100
               /\ d.confidence = IF d.confidence_score >= 80 THEN "High"
                                  ELSE IF d.confidence_score >= 50 THEN "Medium"
                                  ELSE "Low"

\* C9 witness: a scored finding hit by two patterns that ends at 0, class low
C9_Witness ==
    /\ Scored
    /\ \E i \in DOMAIN dead_symbols :
          /\ dead_symbols[i].confidence_score = 0
          /\ dead_symbols[i].confidence = "Low"
    /\ Len(dynamic_patterns) = 2
    /\ \A k \in DOMAIN dynamic_patterns : Contains(dynamic_patterns[k].affected_symbols, 0)

\* the rule table of the scorer: the deltas that apply to a finding
RuleDeltas(d) ==
    << IF d.symbol.has_decorators THEN -20 ELSE 0,
       IF d.symbol.exported THEN -10 ELSE 0,
       IF files[d.symbol.file_id].has_dynamic_eval THEN -30 ELSE 0,
       IF \E f \in DOMAIN files : files[f].has_dynamic_eval THEN -15 ELSE 0,
       IF d.reason.tag = "Transitive" THEN -5 ELSE 0,
       IF d.symbol.kind \in {"Type", "Interface"} THEN 5 ELSE 0,
       IF starts_with(d.symbol.name, "_") /\ ~starts_with(d.symbol.name, "__") THEN 5 ELSE 0,
       IF d.symbol.name = "default" THEN -10 ELSE 0,
       IF d.symbol.kind = "Method" THEN -5 ELSE 0 >>

PatternDelta(p, id) ==
    IF ~Contains(p.affected_symbols, id) THEN 0
    ELSE CASE p.kind = "Eval" -> -40
           [] p.kind = "FunctionConstructor" -> -40
           [] p.kind = "Reflect" -> -30
           [] p.kind = "BracketAccess" -> -20
           [] p.kind = "StringPropertyAccess" -> -20
           [] p.kind = "ObjectIteration" -> -15
           [] p.kind = "DynamicImport" -> -25
           [] p.kind = "DynamicRequire" -> -25

RECURSIVE SumSeq(_)
SumSeq(s) == IF s = <<>> THEN 0 ELSE Head(s) + SumSeq(Tail(s))

ExpectedScore(d) ==
    LET base == IF d.reason.tag = "Transitive" THEN 95 ELSE 100
        total == base + SumSeq(RuleDeltas(d))
                      + SumSeq([k \in DOMAIN dynamic_patterns |->
                                    PatternDelta(dynamic_patterns[k], d.symbol.id)])
    IN IF total < 0 THEN 0 ELSE IF total > 100 THEN 100 ELSE total

\* C10: the score of every finding is its base (100 root-dead, 95 transitive)
\* plus the deltas of the rules that apply, clamped to 0..100
C10_ScoreIsClampedRuleSum ==
    Scored =>
        \A i \in DOMAIN dead_symbols :
            dead_symbols[i].confidence_score = ExpectedScore(dead_symbols[i])

\* C10 witness: a transitive, exported finding affected by a pattern whose
\* score is strictly inside 0..100
C10_Witness ==
    /\ Scored
    /\ \E i \in DOMAIN dead_symbols :
          LET d == dead_symbols[i]
          IN /\ d.reason.tag = "Transitive"
             /\ d.symbol.exported
             /\ d.confidence_score \in 1..99
             /\ \E k \in DOMAIN dynamic_patterns :
                   Contains(dynamic_patterns[k].affected_symbols, d.symbol.id)

-----------------------------------------------------------------------------
(* Properties of the reachability engine (checked under Spec) *)

\* the ids an id refers to, read off the reference list
Successors(id) ==
    {references[i].to_id : i \in {j \in DOMAIN references : references[j].from_id = id}}

\* the least set that contains S and is closed under Successors
RECURSIVE ReachClosure(_)
ReachClosure(S) ==
    LET next == S \cup UNION {Successors(id) : id \in S}
    IN IF next = S THEN S ELSE ReachClosure(next)

LiveSet == ReachClosure(entry_points)

BfsDone == (pc = "bfs" /\ queue = <<>>) \/ pc = "score"

DeadFound == pc = "score"

\* C1: when mark_reachable_symbols returns, the live set is exactly the set of
\* ids reachable from an entry point over zero or more references
C1_LiveSetIsReachability == BfsDone => reachable = LiveSet

\* C1 witness: the BFS has finished on a graph where some live id is not an
\* entry point and no entry point refers to it directly
C1_Witness ==
    /\ BfsDone
    /\ \E id \in reachable :
          /\ id \notin entry_points
          /\ \A e \in entry_points : id \notin Successors(e)

\* C2: no DeadSymbol returned by find_dead_symbols is reachable from an entry
\* point
C2_DeadNotLive ==
    DeadFound => \A i \in DOMAIN dead_symbols : dead_symbols[i].symbol.id \notin LiveSet

\* C2 witness: a result with a finding, on a graph that also has a live symbol
\* that is not itself an entry point
C2_Witness ==
    /\ DeadFound
    /\ dead_symbols # <<>>
    /\ \E id \in DOMAIN symbols : id \in LiveSet \ entry_points

\* the candidate set U: the ids of the symbols that are neither live nor ignored
Candidates ==
    {id \in DOMAIN symbols :
        id \notin LiveSet /\ ~should_ignore_symbol(config, symbols[id].name)}

Occurrences(s, id) == Cardinality({i \in DOMAIN s : s[i].id = id})

OccurrencesT(s, id) == Cardinality({i \in DOMAIN s : s[i].symbol.id = id})

\* C6: every candidate is in exactly one of the two lists of
\* find_transitive_dead, exactly once, and the lists hold nothing else
C6_Partition ==
    DeadFound =>
        /\ \A id \in Candidates :
              Occurrences(directly_dead, id) + OccurrencesT(transitively_dead, id) = 1
        /\ \A i \in DOMAIN directly_dead : directly_dead[i].id \in Candidates
        /\ \A i \in DOMAIN transitively_dead : transitively_dead[i].symbol.id \in Candidates

\* C6 witness: a result where both lists are non-empty
C6_Witness == DeadFound /\ directly_dead # <<>> /\ transitively_dead # <<>>

\* the from-ids of the references into id that come from a candidate, in the
\* order of the reference list
CandidateCallers(id) ==
    LET Into(r) == r.to_id = id /\ r.from_id \in Candidates
        refs == SelectSeq(references, Into)
    IN [i \in DOMAIN refs |-> refs[i].from_id]

\* C7: a candidate with a caller in U is reported transitively dead with the
\* chain of its callers in U, in order, and killed_by the first of them; a
\* candidate without one is reported root-dead without killed_by
C7_KillChain ==
    DeadFound =>
        \A id \in Candidates :
            LET chain == CandidateCallers(id)
            IN IF chain # <<>>
               THEN /\ \E i \in DOMAIN transitively_dead :
                          /\ transitively_dead[i].symbol.id = id
                          /\ transitively_dead[i].chain = chain
                          /\ transitively_dead[i].killed_by = chain[1]
                    /\ \E i \in DOMAIN dead_symbols :
                          /\ dead_symbols[i].symbol.id = id
                          /\ dead_symbols[i].reason = Reason("Transitive", NoExplanation, chain)
                          /\ dead_symbols[i].killed_by = Some(chain[1])
               ELSE /\ \E i \in DOMAIN directly_dead : directly_dead[i].id = id
                    /\ \E i \in DOMAIN dead_symbols :
                          /\ dead_symbols[i].symbol.id = id
                          /\ dead_symbols[i].reason.tag # "Transitive"
                          /\ dead_symbols[i].killed_by = None

\* C7 witness: a finding whose chain has two different callers, the second
\* one carrying the smaller id, next to a root-dead finding
C7_Witness ==
    /\ DeadFound
    /\ directly_dead # <<>>
    /\ \E i \in DOMAIN dead_symbols :
          LET d == dead_symbols[i]
          IN /\ d.reason.tag = "Transitive"
             /\ Len(d.reason.chain) = 2
             /\ d.reason.chain[1] > d.reason.chain[2]
             /\ d.killed_by = Some(d.reason.chain[1])

\* the symbols that no entry point reaches
UnreachableSymbols == {id \in DOMAIN symbols : id \notin LiveSet}

\* C8: a reported dead symbol is root-dead if and only if no other unreachable
\* symbol refers to it (an ignored referrer counts, a self-reference does not)
C8_RootDeadIffNoOtherUnreachableCaller ==
    DeadFound =>
        \A i \in DOMAIN dead_symbols :
            LET d == dead_symbols[i]
            IN (d.reason.tag # "Transitive") <=>
                   ~\E r \in UnreachableSymbols \ {d.symbol.id} :
                        d.symbol.id \in Successors(r)

-----------------------------------------------------------------------------
(* SpecPipeline: Analyzer::analyze on a project *)

\* a source file as the parser sees it: its program, or None when the parser
\* reports errors
SourceFile(path, program) == [path |-> PathFrom(path), program |-> program]

\* what discover_files and the package.json reader hand to the pipeline
Project(file_list, package_json, detectors) ==
    [files |-> file_list, package_json |-> package_json, detectors |-> detectors]

ImportA == ImportDecl(<<ImportSpecifier("a", "a", 1)>>, "./lib")

CallStmt(name) == ExprStmt(CallExpr(Ident(name), <<>>))

\* index.ts: import {a} from './lib'; a();
IndexCallsA == SourceFile("/p/index.ts", Some(<<ImportA, CallStmt("a")>>))

\* lib.ts: export function a(){} export function b(){}
LibS1 ==
    SourceFile("/p/lib.ts",
        Some(<<ExportNamedDecl(FunctionDecl("a", 1, <<>>)),
               ExportNamedDecl(FunctionDecl("b", 1, <<>>))>>))

\* lib.ts: export function a(){ b(); } function b(){} function c(){ d(); }
\* function d(){}
LibS2 ==
    SourceFile("/p/lib.ts",
        Some(<<ExportNamedDecl(FunctionDecl("a", 1, <<CallStmt("b")>>)),
               FunctionDecl("b", 1, <<>>),
               FunctionDecl("c", 1, <<CallStmt("d")>>),
               FunctionDecl("d", 1, <<>>)>>))

\* main.ts: const app = init(); function init(){ return helper(); }
\* function helper(){}
MainSideEffects ==
    SourceFile("/p/main.ts",
        Some(<<VariableDecl("const", <<Declarator("app", 1, Some(CallExpr(Ident("init"), <<>>)))>>),
               FunctionDecl("init", 2, <<ReturnStmt(CallExpr(Ident("helper"), <<>>))>>),
               FunctionDecl("helper", 3, <<>>)>>))

\* dyn.ts: eval("x"); function unused(){}
DynEval ==
    SourceFile("/p/dyn.ts",
        Some(<<ExprStmt(CallExpr(Ident("eval"), <<StringLit("x")>>)),
               FunctionDecl("unused", 2, <<>>)>>))

\* a file the parser rejects
Broken == SourceFile("/p/broken.ts", None)

ProjectS1 == Project(<<IndexCallsA, LibS1>>, None, <<>>)

ProjectS2 == Project(<<IndexCallsA, LibS2>>, None, <<>>)

\* a single file: eval("x"); function unused(){}
ProjectS3 == Project(<<DynEval>>, None, <<>>)

\* a single file: export function _helper(){}
ProjectS4 ==
    Project(<<SourceFile("/p/helper.ts",
                Some(<<ExportNamedDecl(FunctionDecl("_helper", 1, <<>>))>>))>>,
            None, <<>>)

\* index.ts: import {A} from './m'; new A();
\* m.ts: export interface I {} export class A {}
ProjectS5 ==
    Project(<<SourceFile("/p/index.ts",
                Some(<<ImportDecl(<<ImportSpecifier("A", "A", 1)>>, "./m"),
                       ExprStmt(NewExpr(Ident("A"), <<>>))>>)),
              SourceFile("/p/m.ts",
                Some(<<ExportNamedDecl(InterfaceDecl("I", 1)),
                       ExportNamedDecl(ClassDecl("A", 1))>>))>>,
            None, <<>>)

\* side.ts: console.log(init()); function init(){ return helper(); }
\* function helper(){}
ProjectS6 ==
    Project(<<SourceFile("/p/side.ts",
                Some(<<ExprStmt(CallExpr(StaticMember(Ident("console"), "log"),
                                         <<CallExpr(Ident("init"), <<>>)>>)),
                       FunctionDecl("init", 1, <<ReturnStmt(CallExpr(Ident("helper"), <<>>))>>),
                       FunctionDecl("helper", 1, <<>>)>>))>>,
            None, <<>>)

\* a.ts: eval("x"); function h(){}
\* b.ts: interface T {} function f(){} function g(){}
ProjectS7 ==
    Project(<<SourceFile("/p/b.ts",
                Some(<<InterfaceDecl("T", 1),
                       FunctionDecl("f", 2, <<>>),
                       FunctionDecl("g", 3, <<>>)>>)),
              SourceFile("/p/a.ts",
                Some(<<ExprStmt(CallExpr(Ident("eval"), <<StringLit("x")>>)),
                       FunctionDecl("h", 2, <<>>)>>))>>,
            None, <<>>)

\* index.ts: import {I, missing} from './m'; import React from 'react';
\* m.ts: export interface I {} export interface I {} function missing(){}
ProjectS8 ==
    Project(<<SourceFile("/p/index.ts",
                Some(<<ImportDecl(<<ImportSpecifier("I", "I", 1),
                                    ImportSpecifier("missing", "missing", 1)>>, "./m"),
                       ImportDecl(<<ImportDefaultSpecifier("React", 2)>>, "react")>>)),
              SourceFile("/p/m.ts",
                Some(<<ExportNamedDecl(InterfaceDecl("I", 1)),
                       ExportNamedDecl(InterfaceDecl("I", 2)),
                       FunctionDecl("missing", 3, <<>>)>>))>>,
            None, <<>>)

\* the Next.js detector as detect_frameworks returns it for the project
\* root /p: of its entry patterns, pages/**/*.tsx is the one that matches a
\* file of the project
NextJsDetector ==
    [entry_patterns |-> <<[matches |-> {PathFrom("/p/pages/home.tsx")}]>>,
     special_exports |->
        {"getServerSideProps", "getStaticProps", "getStaticPaths", "getInitialProps",
         "generateMetadata", "generateStaticParams", "generateViewport",
         "generateImageMetadata", "GET", "POST", "PUT", "DELETE", "PATCH", "HEAD",
         "OPTIONS", "config", "runtime", "preferredRegion", "revalidate", "dynamic",
         "dynamicParams", "fetchCache", "middleware", "matcher", "default"}]

\* a project with next among its dependencies and no entry in package.json
\* pages/home.tsx: function getServerSideProps(){} export function Page(){}
\*                 function local(){}
\* util.ts: export function u(){}
ProjectS9 ==
    Project(<<SourceFile("/p/pages/home.tsx",
                Some(<<FunctionDecl("getServerSideProps", 1, <<>>),
                       ExportNamedDecl(FunctionDecl("Page", 2, <<>>)),
                       FunctionDecl("local", 3, <<>>)>>)),
              SourceFile("/p/util.ts",
                Some(<<ExportNamedDecl(FunctionDecl("u", 1, <<>>))>>))>>,
            Some([files |-> <<>>]), <<NextJsDetector>>)

\* mod.ts: function foo(){}
\*         export { foo };
\*         export default function main(){}
\*         function outer(){ function inner(){} }
\*         export const limit = 1;
ModExports ==
    <<FunctionDecl("foo", 1, <<>>),
      ExportSpecifierList(<<"foo">>),
      ExportDefaultDecl(FunctionDecl("main", 3, <<>>)),
      FunctionDecl("outer", 4, <<FunctionDecl("inner", 4, <<>>)>>),
      ExportNamedDecl(VariableDecl("const", <<Declarator("limit", 5, None)>>))>>

ProjectS10 == Project(<<SourceFile("/p/mod.ts", Some(ModExports))>>, None, <<>>)

\* a file that exports x: export function x(){}
ExportsX(path) == SourceFile(path, Some(<<ExportNamedDecl(FunctionDecl("x", 1, <<>>))>>))

\* a file that imports x from each of the specifiers
ImportsX(path, specifiers) ==
    SourceFile(path,
        Some([k \in DOMAIN specifiers |->
                ImportDecl(<<ImportSpecifier("x", "x", k)>>, specifiers[k])]))

\* the projects on which the candidates of resolve_import_path compete:
\* an exact path against an earlier extension, an extension against a later
\* one, an extension against an index file, two index files, and no file
ResolutionProjects ==
    { Project(<<ImportsX("/p/index.ts", <<"./a", "./a.js", "./none">>),
                ExportsX("/p/a.js"), ExportsX("/p/a.tsx")>>, None, <<>>),
      Project(<<ImportsX("/p/index.ts", <<"./a">>),
                ExportsX("/p/a/index.ts"), ExportsX("/p/a.js")>>, None, <<>>),
      Project(<<ImportsX("/p/index.ts", <<"./d", "./d/index">>),
                ExportsX("/p/d/index.jsx"), ExportsX("/p/d/index.js")>>, None, <<>>) }

\* the default configuration with analysis.include_types switched off
NoTypesConfig == [DefaultConfig EXCEPT !.include_types = FALSE]

\* the default configuration with analysis.ignore_patterns emptied
NoIgnoreConfig == [DefaultConfig EXCEPT !.ignore_patterns = <<>>]

\* the projects analysed, each with its configuration
PipelineInputs ==
    { <<ProjectS1, DefaultConfig>>,
      <<ProjectS2, DefaultConfig>>,
      <<ProjectS1, [DefaultConfig EXCEPT !.entry_files = <<PathFrom("/p/lib.ts")>>]>>,
      <<ProjectS2, [DefaultConfig EXCEPT !.entry_exports = <<"a">>]>>,
      <<Project(<<LibS1, IndexCallsA>>, None, <<>>), DefaultConfig>>,
      <<Project(<<MainSideEffects, DynEval>>, None, <<>>), DefaultConfig>>,
      <<Project(<<IndexCallsA, Broken, LibS1>>, None, <<>>), DefaultConfig>>,
      <<ProjectS3, DefaultConfig>>,
      <<ProjectS4, DefaultConfig>>,
      <<ProjectS4, NoIgnoreConfig>>,
      <<ProjectS5, DefaultConfig>>,
      <<ProjectS6, DefaultConfig>>,
      <<ProjectS7, NoTypesConfig>>,
      <<ProjectS8, DefaultConfig>>,
      <<ProjectS9, DefaultConfig>>,
      <<ProjectS10, DefaultConfig>>,
      <<Project(<<>>, None, <<>>), DefaultConfig>> }
        \cup { <<proj, DefaultConfig>> : proj \in ResolutionProjects }

IdleWorker ==
    [status |-> "idle", file_id |-> None, pending |-> <<>>, symbols |-> <<>>,
     analysis |-> None]

InitPipeline ==
    /\ InitGraph
    /\ InitAnalysis
    /\ dead_symbols = <<>>
    /\ \E input \in PipelineInputs :
          /\ project = input[1]
          /\ config = input[2]
    /\ file_id_counter = 0
    /\ symbol_id_counter = 0
    /\ file_id_map = <<>>
    /\ workers = [i \in DOMAIN project.files |-> IdleWorker]
    /\ pc = "parse"

\* Analyzer::analyze: discover_files found nothing
NoFilesFound ==
    /\ pc = "parse"
    /\ project.files = <<>>
    /\ pc' = "no_files_found"
    /\ UNCHANGED <<graphVars, config, bfsVars, deadVars, buildVars, result>>

\* the closure of par_iter().filter_map up to the parse: the file id is
\* taken from the shared counter and recorded, then the file is parsed
StartFile(i) ==
    /\ pc = "parse"
    /\ workers[i].status = "idle"
    /\ LET file == project.files[i]
           file_id == file_id_counter
       IN /\ file_id_counter' = WrappingInc(file_id_counter)
          /\ file_id_map' = MapInsert(file_id_map, file.path, file_id)
          /\ workers' = [workers EXCEPT ![i] =
                IF file.program = None
                THEN [@ EXCEPT !.status = "failed", !.file_id = Some(file_id)]
                ELSE [@ EXCEPT !.status = "extracting", !.file_id = Some(file_id),
                               !.pending = extract_symbols(file.program[1])]]
    /\ UNCHANGED <<graphVars, config, pc, bfsVars, deadVars, project,
                   symbol_id_counter, result>>

\* SymbolExtractor::add_symbol: the id is taken from the shared counter
ExtractSymbol(i) ==
    /\ pc = "parse"
    /\ workers[i].status = "extracting"
    /\ workers[i].pending # <<>>
    /\ LET p == Head(workers[i].pending)
           file_id == workers[i].file_id[1]
           symbol == [TrackedSymbol(symbol_id_counter, p.name, p.kind,
                                    Location(project.files[i].path, p.line), file_id)
                        EXCEPT !.exported = p.exported]
       IN /\ symbol_id_counter' = WrappingInc(symbol_id_counter)
          /\ workers' = [workers EXCEPT ![i].pending = Tail(@),
                                        ![i].symbols = Append(@, symbol)]
    /\ UNCHANGED <<graphVars, config, pc, bfsVars, deadVars, project,
                   file_id_counter, file_id_map, result>>

\* analyze_file after the symbol extraction: references, imports, FileInfo
FinishFile(i) ==
    /\ pc = "parse"
    /\ workers[i].status = "extracting"
    /\ workers[i].pending = <<>>
    /\ LET file == project.files[i]
           program == file.program[1]
           refs == extract_references(program, file.path)
           syms == workers[i].symbols
           file_info == FileInfo(workers[i].file_id[1], file.path,
                                 extract_has_side_effects(program),
                                 refs.has_dynamic_eval,
                                 [k \in DOMAIN syms |-> syms[k].id])
       IN workers' = [workers EXCEPT ![i].status = "done",
                        ![i].analysis = Some(FileAnalysis(file_info, syms,
                                                refs.references, refs.imports))]
    /\ UNCHANGED <<graphVars, config, pc, bfsVars, deadVars, project,
                   file_id_counter, symbol_id_counter, file_id_map, result>>

\* collect(): the analyses of the files that parsed, in the order of the
\* input
file_analyses ==
    LET done == SelectSeq(workers, LAMBDA w : w.status = "done")
    IN [k \in DOMAIN done |-> done[k].analysis[1]]

\* build_call_graph once every file is analysed: the two passes
BuildGraph ==
    /\ pc = "parse"
    /\ project.files # <<>>
    /\ \A i \in DOMAIN workers : workers[i].status \in {"done", "failed"}
    /\ SetGraph(second_pass(first_pass(NewCallGraph, file_analyses),
                            file_analyses, file_id_map))
    /\ pc' = "entry"
    /\ UNCHANGED <<config, bfsVars, deadVars, buildVars, result>>

\* entry_points::discover_entry_points
DiscoverEntryPoints ==
    /\ pc = "entry"
    /\ \E order \in Orders(DOMAIN files) :
          SetGraph(discover_entry_points(Graph, project, config, order))
    /\ pc' = "find_dead"
    /\ UNCHANGED <<config, bfsVars, deadVars, buildVars, result>>

\* Analyzer::analyze, the AnalysisResult
Finish ==
    /\ pc = "scored"
    /\ result' = [produced |-> TRUE, dead_symbols |-> dead_symbols,
                  total_symbols |-> Cardinality(DOMAIN symbols),
                  total_files |-> Cardinality(DOMAIN files),
                  warnings |-> <<>>]
    /\ pc' = "done"
    /\ UNCHANGED <<graphVars, config, bfsVars, deadVars, buildVars>>

NextPipeline ==
    \/ NoFilesFound
    \/ \E i \in DOMAIN workers : StartFile(i)
    \/ \E i \in DOMAIN workers : ExtractSymbol(i)
    \/ \E i \in DOMAIN workers : FinishFile(i)
    \/ BuildGraph
    \/ DiscoverEntryPoints
    \/ BfsStart
    \/ BfsStep
    \/ FindDead
    \/ ScoreDeadSymbols
    \/ Finish

SpecPipeline == InitPipeline /\ [][NextPipeline]_vars

-----------------------------------------------------------------------------
(* Properties of the pipeline, checked under SpecPipeline *)

\* the dead symbol reported under a name, for reports that name it once
ReportOf(name) ==
    result.dead_symbols[CHOOSE i \in DOMAIN result.dead_symbols :
                            result.dead_symbols[i].symbol.name = name]

ReportedNames ==
    { result.dead_symbols[i].symbol.name : i \in DOMAIN result.dead_symbols }

\* C3: with the default configuration, the analysis of index.ts
\* (import {a} from './lib'; a();) and lib.ts (export function a(){}
\* export function b(){}) reports exactly b, as an unused export with
\* confidence 90; the imported a is live
C3_S1DeadSetIsB ==
    (pc = "done" /\ project = ProjectS1 /\ config = DefaultConfig) =>
        /\ Len(result.dead_symbols) = 1
        /\ ReportedNames = {"b"}
        /\ ReportOf("b").reason.tag = "UnusedExport"
        /\ ReportOf("b").confidence_score = 90

\* C4: with the default configuration, the analysis of index.ts
\* (import {a} from './lib'; a();) and lib.ts (export function a(){ b(); }
\* function b(){} function c(){ d(); } function d(){}) reports exactly c and
\* d: c root-dead with confidence 100, d transitively dead, killed by c, with
\* confidence 90; a and b are live
C4_S2DeadSetIsCD ==
    (pc = "done" /\ project = ProjectS2 /\ config = DefaultConfig) =>
        /\ Len(result.dead_symbols) = 2
        /\ ReportedNames = {"c", "d"}
        /\ ReportOf("c").reason.tag # "Transitive"
        /\ ReportOf("c").killed_by = None
        /\ ReportOf("c").confidence_score = 100
        /\ ReportOf("d").reason.tag = "Transitive"
        /\ ReportOf("d").killed_by = Some(ReportOf("c").symbol.id)
        /\ ReportOf("d").confidence_score = 90

\* the graph build_call_graph returned is in the state variables
GraphBuilt == pc \notin {"parse", "no_files_found"}

\* C5: in the graph build_call_graph produces, both ends of every reference
\* of the reference list, the import references included, are ids of symbols
\* of the symbol map
C5_ReferenceEndsAreKnownSymbols ==
    GraphBuilt =>
        \A i \in DOMAIN references :
            /\ references[i].from_id \in DOMAIN symbols
            /\ references[i].to_id \in DOMAIN symbols

\* the analysis of the project under the default configuration has returned
Analysed(proj) == pc = "done" /\ project = proj /\ config = DefaultConfig

\* C11: for the single file eval("x"); function unused(){} the file has
\* has_dynamic_eval and unused is the one finding, with confidence 55 (100,
\* less 30 for the eval in its file, less 15 for an eval in some file), class
\* medium
C11_S3UnusedScores55 ==
    Analysed(ProjectS3) =>
        /\ \A f \in DOMAIN files : files[f].has_dynamic_eval
        /\ Len(result.dead_symbols) = 1
        /\ ReportedNames = {"unused"}
        /\ ReportOf("unused").confidence_score = 55
        /\ ReportOf("unused").confidence = "Medium"

C11_Witness ==
    /\ Analysed(ProjectS3)
    /\ \E f \in DOMAIN files : files[f].has_dynamic_eval
    /\ ReportedNames = {"unused"}

\* C11 as stated: unused is reported with confidence exactly 70
C11_S3UnusedScores70 ==
    Analysed(ProjectS3) =>
        /\ \A f \in DOMAIN files : files[f].has_dynamic_eval
        /\ Len(result.dead_symbols) = 1
        /\ ReportedNames = {"unused"}
        /\ ReportOf("unused").confidence_score = 70
        /\ ReportOf("unused").confidence = "Medium"

\* C12: the analysis of index.ts (import {A} from './m'; new A();) and m.ts
\* (export interface I {} export class A {}) reports exactly I, as an unused
\* type with confidence 95, class high
C12_S5DeadSetIsI ==
    Analysed(ProjectS5) =>
        /\ Len(result.dead_symbols) = 1
        /\ ReportedNames = {"I"}
        /\ ReportOf("I").reason.tag = "UnusedType"
        /\ ReportOf("I").confidence_score = 95
        /\ ReportOf("I").confidence = "High"

\* C13: the analysis of a file declaring export function _helper(){} reports
\* nothing under the default configuration, whose ignore pattern ^_ matches
\* the name; with the ignore patterns emptied it reports _helper with
\* confidence 95 (100 - 10 exported + 5 leading underscore), class high
C13_S4HelperIgnoredByDefault ==
    /\ Analysed(ProjectS4) => result.dead_symbols = <<>>
    /\ (pc = "done" /\ project = ProjectS4 /\ config = NoIgnoreConfig) =>
            /\ Len(result.dead_symbols) = 1
            /\ ReportedNames = {"_helper"}
            /\ ReportOf("_helper").confidence_score = 95
            /\ ReportOf("_helper").confidence = "High"

C13_Witness ==
    /\ Analysed(ProjectS4)
    /\ result.produced
    /\ \E id \in DOMAIN symbols :
          /\ symbols[id].name = "_helper"
          /\ symbols[id].exported
          /\ id \notin reachable

\* C13 as stated: under the default configuration _helper is a finding, with
\* confidence 95, class high
C13_S4HelperReportedByDefault ==
    Analysed(ProjectS4) =>
        /\ ReportedNames = {"_helper"}
        /\ ReportOf("_helper").confidence_score = 95
        /\ ReportOf("_helper").confidence = "High"

\* C14: side.ts, with the top-level statement console.log(init()) and the
\* functions init and helper, has has_side_effects, init and helper are entry
\* points and nothing is reported
C14_S6SideEffectsKeepAlive ==
    Analysed(ProjectS6) =>
        /\ \A f \in DOMAIN files : files[f].has_side_effects
        /\ entry_points = DOMAIN symbols
        /\ {symbols[id].name : id \in DOMAIN symbols} = {"init", "helper"}
        /\ result.dead_symbols = <<>>

\* the sort key of a finding: the path of its file, then its line
KeyLeq(a, b) ==
    LET c == PathCmp(a.symbol.location.file_path, b.symbol.location.file_path)
    IN c < 0 \/ (c = 0 /\ a.symbol.location.line <= b.symbol.location.line)

NonDecreasing(s) == \A i, j \in DOMAIN s : i < j => KeyLeq(s[i], s[j])

ConfidenceLevels == {"Low", "Medium", "High"}

\* C15: the findings are non-decreasing by (file path, line) when
\* find_dead_symbols returns them, after the scorer (its type filter
\* included), in the result, and in what filter_by_confidence keeps of the
\* result for every minimum level
C15_FindingsSortedByFileAndLine ==
    /\ pc \in {"score", "scored", "done"} => NonDecreasing(dead_symbols)
    /\ pc = "done" =>
          /\ NonDecreasing(result.dead_symbols)
          /\ \A c \in ConfidenceLevels : NonDecreasing(filter_by_confidence(result, c))

\* C15 witness: findings in two files and on several lines, collected out of
\* order, a type finding dropped by the scorer and a finding dropped by
\* filter_by_confidence
C15_Witness ==
    /\ pc = "done"
    /\ project = ProjectS7
    /\ ~config.include_types
    /\ Len(result.dead_symbols) = 3
    /\ Len(unreachable) = 4
    /\ ~NonDecreasing([i \in DOMAIN unreachable |-> [symbol |-> unreachable[i]]])
    /\ Len(filter_by_confidence(result, "High")) = 2
    /\ \E i, j \in DOMAIN result.dead_symbols :
          /\ i < j
          /\ result.dead_symbols[i].symbol.location.file_path
                # result.dead_symbols[j].symbol.location.file_path

\* what two runs are compared on: names, kinds, locations, confidence and
\* reasons, with the ids of a chain replaced by the names they stand for
FindingView(d) ==
    [name |-> d.symbol.name, kind |-> d.symbol.kind, location |-> d.symbol.location,
     confidence |-> d.confidence, confidence_score |-> d.confidence_score,
     reason |-> d.reason.tag, explanation |-> d.reason.explanation,
     chain |-> [k \in DOMAIN d.reason.chain |-> symbols[d.reason.chain[k]].name]]

ResultView(dead) == [i \in DOMAIN dead |-> FindingView(dead[i])]

\* the ids of the symbol map in ascending order, one of the orders in which
\* symbols.values() can yield them
RECURSIVE Ascending(_)
Ascending(ids) ==
    IF ids = {} THEN <<>>
    ELSE LET m == CHOOSE x \in ids : \A y \in ids : x <= y
         IN <<m>> \o Ascending(ids \ {m})

\* the findings of a second run on the same graph in which symbols.values()
\* yields the symbols by ascending id
SecondRunFindings ==
    LET order == Ascending(DOMAIN symbols)
        values == [i \in DOMAIN order |-> symbols[order[i]]]
        td == find_transitive_dead(collect_unreachable(values, reachable, config), Graph)
    IN score_dead_symbols(create_dead_symbols(td, Graph), Graph, config)

\* C16: the findings of a run are, in the same order and with the same names,
\* kinds, locations, confidence and reasons, those of any other run on the
\* same input, whatever order the hash map yields the symbols in
C16_ResultIndependentOfHashOrder ==
    pc = "done" => ResultView(result.dead_symbols) = ResultView(SecondRunFindings)

\* the symbols of the graph that are unreferenced orphans: not an entry
\* point, and named by no reference
Orphans ==
    { id \in DOMAIN symbols :
        /\ id \notin entry_points
        /\ \A i \in DOMAIN references :
              references[i].from_id # id /\ references[i].to_id # id }

\* the graph before the symbol was added to it
WithoutSymbol(g, id) ==
    [g EXCEPT !.symbols = [x \in DOMAIN g.symbols \ {id} |-> g.symbols[x]]]

\* the number of dead symbols find_dead_symbols returns for a graph
DeadCount(g) ==
    Len(find_dead_symbols(g, config, Ascending(g.entry_points), Ascending(DOMAIN g.symbols)))

\* C17: a graph with an unreferenced orphan has exactly one dead symbol more
\* than the graph before the orphan was added when the configuration does not
\* ignore the orphan's name, and exactly as many when it does
C17_OrphanAddsOneUnlessIgnored ==
    DeadFound =>
        \A id \in Orphans :
            Len(dead_symbols) =
                DeadCount(WithoutSymbol(Graph, id))
                    + (IF should_ignore_symbol(config, symbols[id].name) THEN 0 ELSE 1)

\* C17 witness: an orphan that is reported next to another symbol, with
\* references and an entry point in the graph
C17_Witness ==
    /\ DeadFound
    /\ references # <<>>
    /\ entry_points # {}
    /\ \E id \in Orphans :
          /\ ~should_ignore_symbol(config, symbols[id].name)
          /\ \E i \in DOMAIN dead_symbols : dead_symbols[i].symbol.id = id
          /\ DOMAIN symbols # {id}

\* C17 as stated: whatever the orphan, the graph has exactly one dead symbol
\* more than the graph before the orphan was added
C17_OrphanAddsOne ==
    DeadFound =>
        \A id \in Orphans :
            Len(dead_symbols) = DeadCount(WithoutSymbol(Graph, id)) + 1

\* the to-ids of the references out of id, in the order of the reference list
ToIdsFrom(id) ==
    LET OutOf(r) == r.from_id = id
        refs == SelectSeq(references, OutOf)
    IN [i \in DOMAIN refs |-> refs[i].to_id]

\* the from-ids of the references into id, in the order of the reference list
FromIdsInto(id) ==
    LET Into(r) == r.to_id = id
        refs == SelectSeq(references, Into)
    IN [i \in DOMAIN refs |-> refs[i].from_id]

\* C18: after any sequence of add_reference calls, for every id the outgoing
\* index holds exactly the to-ids of the references from it and the incoming
\* index exactly the from-ids of the references into it, in insertion order
\* and with duplicates kept; the indices have no other key
C18_IndicesAgreeWithReferences ==
    /\ \A id \in NodeIds \cup DOMAIN outgoing_refs \cup DOMAIN incoming_refs :
          /\ get_outgoing_refs(Graph, id) = ToIdsFrom(id)
          /\ get_incoming_refs(Graph, id) = FromIdsInto(id)
    /\ \A id \in DOMAIN outgoing_refs : outgoing_refs[id] # <<>>
    /\ \A id \in DOMAIN incoming_refs : incoming_refs[id] # <<>>

\* C18 witness: the same edge added twice, between two different ids
C18_Witness ==
    \E i, j \in DOMAIN references :
        /\ i < j
        /\ references[i] = references[j]
        /\ references[i].from_id # references[i].to_id
        /\ Len(get_outgoing_refs(Graph, references[i].from_id)) = 2
        /\ Len(get_incoming_refs(Graph, references[i].to_id)) = 2

\* C19: after any sequence of add_symbol, add_reference and mark_entry_point
\* calls, every id in entry_points is a key of the symbol map
C19_EntryPointsAreSymbols == entry_points \subseteq DOMAIN symbols

\* the imports of the analysed files, in the order in which build_call_graph
\* goes through them
RECURSIVE ImportsOf(_)
ImportsOf(analyses) ==
    IF analyses = <<>> THEN <<>>
    ELSE Head(analyses).imports \o ImportsOf(Tail(analyses))

\* the symbols an import may be linked to: exported, named as the import's
\* imported_name, declared in the file the import path resolves to, and with
\* no exported symbol of that name before it in the file's symbol list
ImportTargets(import) ==
    LET target_file_id == resolve_import_path(import.resolved_path, file_id_map)
    IN IF target_file_id = None \/ target_file_id[1] \notin DOMAIN files THEN {}
       ELSE LET ids == files[target_file_id[1]].symbols
                Exports(id) == /\ id \in DOMAIN symbols
                               /\ symbols[id].exported
                               /\ symbols[id].name = import.imported_name
            IN { id \in DOMAIN symbols :
                   /\ Exports(id)
                   /\ symbols[id].file_id = target_file_id[1]
                   /\ \E i \in DOMAIN ids :
                         /\ ids[i] = id
                         /\ \A j \in 1..(i - 1) : ~Exports(ids[j]) }

\* the references of kind Import, in the order of the reference list
ImportReferences == SelectSeq(references, LAMBDA r : r.kind = "Import")

\* C20: the import references of the graph are, in order, those of the
\* imports that have a target; each goes from its import's local id to an
\* exported symbol named as the import's imported_name, declared in the file
\* the import path resolved to, the first such symbol of the file's list
C20_ImportReferencesTargetFirstExport ==
    GraphBuilt =>
        LET linked == SelectSeq(ImportsOf(file_analyses),
                                LAMBDA import : ImportTargets(import) # {})
        IN /\ Len(ImportReferences) = Len(linked)
           /\ \A k \in DOMAIN ImportReferences :
                 /\ ImportReferences[k].from_id = linked[k].local_symbol_id
                 /\ ImportReferences[k].to_id \in ImportTargets(linked[k])

\* C20 witness: an import reference into a file that exports its name twice,
\* resolved through the extension list, next to imports that get no reference
C20_Witness ==
    /\ GraphBuilt
    /\ project = ProjectS8
    /\ Len(ImportReferences) = 1
    /\ Len(ImportsOf(file_analyses)) = 3
    /\ \E id \in DOMAIN symbols :
          /\ id # ImportReferences[1].to_id
          /\ symbols[id].exported
          /\ symbols[id].name = symbols[ImportReferences[1].to_id].name
          /\ symbols[id].file_id = symbols[ImportReferences[1].to_id].file_id

\* C21: from the entry loop of mark_reachable_symbols on, every entry point is
\* in the visited set, and no finding of find_dead_symbols is a symbol whose
\* id is in entry_points or whose is_entry_point flag is set
C21_EntryPointsAreLive ==
    /\ pc \in {"bfs", "score"} => entry_points \subseteq reachable
    /\ DeadFound =>
          \A i \in DOMAIN dead_symbols :
              /\ dead_symbols[i].symbol.id \notin entry_points
              /\ ~dead_symbols[i].symbol.is_entry_point

\* C21 witness: an entry point that nothing refers to and that refers to
\* nothing, in a graph for which find_dead_symbols reports another symbol
C21_Witness ==
    /\ DeadFound
    /\ dead_symbols # <<>>
    /\ \E id \in entry_points :
          /\ id \in DOMAIN symbols
          /\ symbols[id].is_entry_point
          /\ get_incoming_refs(Graph, id) = <<>>
          /\ get_outgoing_refs(Graph, id) = <<>>

\* the files of the project that the parser rejected
FailedFiles == { i \in DOMAIN workers : workers[i].status = "failed" }

\* the failed files left nothing in the graph and every other file is in it
FailedFilesSkipped ==
    /\ result.produced
    /\ \A i \in FailedFiles :
          /\ \A f \in DOMAIN files : files[f].path # project.files[i].path
          /\ \A id \in DOMAIN symbols :
                symbols[id].location.file_path # project.files[i].path
    /\ \A i \in DOMAIN workers \ FailedFiles :
          \E f \in DOMAIN files : files[f].path = project.files[i].path
    /\ result.total_files = Cardinality(DOMAIN workers \ FailedFiles)

\* C22: when a file fails to parse the analysis still returns a result, the
\* failed file has no FileInfo and no symbol in the graph, the other files
\* are analysed, and the result's warnings hold a warning for the file
C22_ParseFailureSkippedWithWarning ==
    pc = "done" =>
        /\ FailedFilesSkipped
        /\ \A i \in FailedFiles :
              \E k \in DOMAIN result.warnings :
                  result.warnings[k].file_path = project.files[i].path

\* the symbol ids the workers have issued so far, one entry per add_symbol
RECURSIVE IssuedSymbolIds(_)
IssuedSymbolIds(ws) ==
    IF ws = <<>> THEN <<>>
    ELSE [k \in DOMAIN Head(ws).symbols |-> Head(ws).symbols[k].id]
            \o IssuedSymbolIds(Tail(ws))

\* the file ids the workers have issued so far, one entry per started file
IssuedFileIds ==
    LET started == SelectSeq(workers, LAMBDA w : w.file_id # None)
    IN [k \in DOMAIN started |-> started[k].file_id[1]]

Distinct(s) == \A i, j \in DOMAIN s : i # j => s[i] # s[j]

\* C23: under every interleaving of the per-file workers no symbol id and no
\* file id is issued twice, and every id issued is below its counter
C23_IdsAreUnique ==
    /\ Distinct(IssuedSymbolIds(workers))
    /\ Distinct(IssuedFileIds)
    /\ \A k \in DOMAIN IssuedSymbolIds(workers) :
          IssuedSymbolIds(workers)[k] < symbol_id_counter
    /\ \A k \in DOMAIN IssuedFileIds : IssuedFileIds[k] < file_id_counter
    /\ GraphBuilt =>
          /\ Cardinality(DOMAIN symbols) = Len(IssuedSymbolIds(workers))
          /\ Cardinality(DOMAIN file_id_map) = Len(IssuedFileIds)

\* C23 witness: two workers ran interleaved: the second file of the input
\* took the first file id, and the ids of one file's symbols have a gap that
\* a symbol of the other file fills
C23_Witness ==
    /\ Len(workers) = 2
    /\ workers[2].file_id = Some(0)
    /\ workers[1].file_id = Some(1)
    /\ \E k \in DOMAIN workers[1].symbols, m \in DOMAIN workers[2].symbols :
          /\ k + 1 \in DOMAIN workers[1].symbols
          /\ workers[1].symbols[k].id < workers[2].symbols[m].id
          /\ workers[2].symbols[m].id < workers[1].symbols[k + 1].id

\* discover_entry_points has returned
EntryPointsDiscovered == pc \in {"find_dead", "bfs", "score", "scored", "done"}

DeclaredNames(stmt) ==
    IF stmt.type = "VariableDeclaration"
    THEN { stmt.declarations[k].id : k \in DOMAIN stmt.declarations }
    ELSE IF stmt.type \in {"FunctionDeclaration", "ClassDeclaration",
                           "TSInterfaceDeclaration", "TSTypeAliasDeclaration"}
         THEN {stmt.id}
         ELSE {}

\* the names a module exports: those declared under `export`, those declared
\* under `export default`, and those listed in `export { .. }`
ExportedNames(program) ==
    UNION { LET stmt == program[i]
            IN IF stmt.type = "ExportNamedDeclaration"
               THEN (IF stmt.declaration = None THEN Range(stmt.specifiers)
                     ELSE DeclaredNames(stmt.declaration[1]))
               ELSE IF stmt.type = "ExportDefaultDeclaration"
                    THEN DeclaredNames(stmt.declaration)
                    ELSE {} : i \in DOMAIN program }

\* the names the module declares at module level, exported or not
ModuleLevelNames(program) ==
    UNION { LET stmt == program[i]
            IN IF stmt.type = "ExportNamedDeclaration"
               THEN (IF stmt.declaration = None THEN {}
                     ELSE DeclaredNames(stmt.declaration[1]))
               ELSE IF stmt.type = "ExportDefaultDeclaration"
                    THEN DeclaredNames(stmt.declaration)
                    ELSE DeclaredNames(stmt) : i \in DOMAIN program }

\* the files whose symbols have all been extracted
ExtractedFiles == { i \in DOMAIN workers : workers[i].status = "done" }

\* C25: a symbol extracted for a module-level declaration is marked exported
\* if and only if the module exports its name by `export <declaration>`,
\* `export default <declaration>` or `export { name }`
C25_ExportedIffExportForm ==
    \A i \in ExtractedFiles :
        LET program == project.files[i].program[1]
        IN \A k \in DOMAIN workers[i].symbols :
              LET symbol == workers[i].symbols[k]
              IN symbol.name \in ModuleLevelNames(program) =>
                    (symbol.exported <=> symbol.name \in ExportedNames(program))

\* the extensions whose `<stem>.<ext>` next to the path is a known file
StemHits(path) ==
    { i \in DOMAIN Extensions :
        /\ PathFileStem(path) # None
        /\ PathParent(path) # None
        /\ PathJoin(PathParent(path)[1], PathFileStem(path)[1] \o "." \o Extensions[i])
              \in DOMAIN file_id_map }

\* the extensions whose `<path>/index.<ext>` is a known file
IndexHits(path) ==
    { i \in DOMAIN Extensions :
        PathJoin(path, "index." \o Extensions[i]) \in DOMAIN file_id_map }

Least(S) == CHOOSE i \in S : \A j \in S : i <= j

\* the file an import path stands for under the priority order: the path
\* itself, else the first extension of the list with a file, else the first
\* extension of the list with an index file, else none
PriorityResolution(path) ==
    IF path \in DOMAIN file_id_map THEN Some(path)
    ELSE IF StemHits(path) # {}
         THEN Some(PathJoin(PathParent(path)[1],
                            PathFileStem(path)[1] \o "." \o Extensions[Least(StemHits(path))]))
         ELSE IF IndexHits(path) # {}
              THEN Some(PathJoin(path, "index." \o Extensions[Least(IndexHits(path))]))
              ELSE None

DeclaredNameSeq(stmt) ==
    IF stmt.type = "VariableDeclaration"
    THEN [k \in DOMAIN stmt.declarations |-> stmt.declarations[k].id]
    ELSE IF stmt.type \in {"FunctionDeclaration", "ClassDeclaration",
                           "TSInterfaceDeclaration", "TSTypeAliasDeclaration"}
         THEN <<stmt.id>>
         ELSE <<>>

\* the names of the module-level declarations of a program, one entry per
\* declaration, in source order
RECURSIVE ModuleLevelDeclarations(_)
ModuleLevelDeclarations(program) ==
    IF program = <<>> THEN <<>>
    ELSE LET stmt == Head(program)
             here == IF stmt.type = "ExportNamedDeclaration"
                     THEN (IF stmt.declaration = None THEN <<>>
                           ELSE DeclaredNameSeq(stmt.declaration[1]))
                     ELSE IF stmt.type = "ExportDefaultDeclaration"
                          THEN DeclaredNameSeq(stmt.declaration)
                          ELSE DeclaredNameSeq(stmt)
         IN here \o ModuleLevelDeclarations(Tail(program))

\* C27: the symbols extracted from a file are, one for one and in source
\* order, its module-level declarations: none is extracted twice and none
\* comes from a declaration nested in a function body
C27_OneSymbolPerModuleLevelDeclaration ==
    \A i \in ExtractedFiles :
        [k \in DOMAIN workers[i].symbols |-> workers[i].symbols[k].name]
            = ModuleLevelDeclarations(project.files[i].program[1])

\* every id was enqueued at most once, after it was marked; the queue holds
\* marked ids only and none twice
EnqueuedOnce ==
    /\ \A id \in DOMAIN enqueued : enqueued[id] = 1 /\ id \in reachable
    /\ \A i \in DOMAIN queue : queue[i] \in DOMAIN enqueued
    /\ \A i, j \in DOMAIN queue : i # j => queue[i] # queue[j]

\* C28: mark_reachable_symbols enqueues each id at most once and only once
\* it is marked, and its loop ends on every graph: once started, the queue
\* eventually runs empty
C28_BfsTerminatesEnqueueOnce ==
    /\ [](pc \in {"bfs", "score"} => EnqueuedOnce)
    /\ (pc = "bfs") ~> BfsDone

\* C28 witness: the loop has ended on a graph with a cycle between two
\* symbols, both reached
C28_Witness ==
    /\ pc = "bfs"
    /\ queue = <<>>
    /\ \E i, j \in DOMAIN references :
          /\ references[i].from_id # references[i].to_id
          /\ references[j].from_id = references[i].to_id
          /\ references[j].to_id = references[i].from_id
          /\ {references[i].from_id, references[i].to_id} \subseteq reachable
          /\ enqueued[references[i].to_id] = 1

\* mark_reachable_symbols has returned
Marked == (pc = "bfs" /\ queue = <<>>) \/ pc \in {"score", "scored", "done"}

\* find_transitive_dead has returned
Classified == pc \in {"score", "scored", "done"}

RECURSIVE ReachesRootDead(_, _)
ReachesRootDead(id, n) ==
    \E i \in DOMAIN dead_symbols :
        /\ dead_symbols[i].symbol.id = id
        /\ \/ dead_symbols[i].killed_by = None
           \/ n > 0 /\ ReachesRootDead(dead_symbols[i].killed_by[1], n - 1)

\* C30: killed_by of a transitively-dead finding names another finding, and
\* following killed_by from it reaches a root-dead finding (a walk that does
\* not loop visits each finding at most once)
C30_KilledByReachesRootDead ==
    DeadFound =>
        \A i \in DOMAIN dead_symbols :
            dead_symbols[i].killed_by # None =>
                /\ dead_symbols[i].killed_by[1] # dead_symbols[i].symbol.id
                /\ ReachesRootDead(dead_symbols[i].symbol.id, Len(dead_symbols))

====
